---------------------------- MODULE Spec2Model ----------------------------
(***************************************************************************)
(* Model of the csolution project manager front end, ProjMgr               *)
(* (tools/projmgr/src/ProjMgr.cpp): command line parsing, the load-packs   *)
(* policy, the dispatch of the commands, PopulateContexts, the Configure   *)
(* run that drives ProcessContext over the selected contexts, the emission *)
(* of the build files in convert, and the list commands.                   *)
(*                                                                         *)
(* The worker, the parser, the emitter and the cprj generator are          *)
(* collaborators whose code is not part of ProjMgr.cpp: their answers are  *)
(* inputs drawn with \E, and                                               *)
(* the part of the worker that the run depends on (context expansion and   *)
(* context selection) follows the design document.                         *)
(***************************************************************************)
EXTENDS Integers, Sequences, FiniteSets, TLC

(***************************************************************************)
(* Bounds of the model.                                                    *)
(***************************************************************************)
\* longest list of -c patterns on a command line
MaxPatterns == 2

(***************************************************************************)
(* ErrorCode, and the "help or version requested" result of               *)
(* ParseCommandLine.                                                       *)
(***************************************************************************)
SUCCESS == 0
ERROR == 1
HELP_REQUESTED == -1
VARIABLE_NOT_DEFINED == 2

(***************************************************************************)
(* Context names: project[.build-type][+target-type].  An empty field is   *)
(* absent; in a pattern an absent field matches every value.               *)
(***************************************************************************)
Ctx(p, b, t) == [project |-> p, buildType |-> b, targetType |-> t]

NoName == Ctx("", "", "")

\* the -c patterns a command line may carry
PatternSet ==
  { Ctx("App", "Debug", ""),          \* App.Debug
    Ctx("", "", "BoardB"),            \* +BoardB
    Ctx("Lib", "", ""),               \* Lib
    Ctx("App", "Release", "BoardA") } \* App.Release+BoardA

RECURSIVE SeqsUpTo(_, _)
SeqsUpTo(S, n) ==
  IF n = 0 THEN { <<>> }
  ELSE LET shorter == SeqsUpTo(S, n - 1)
       IN  shorter \cup { Append(s, x) : s \in shorter, x \in S }

PatternLists == SeqsUpTo(PatternSet, MaxPatterns)

Range(s) == { s[i] : i \in 1..Len(s) }

(***************************************************************************)
(* The csolution files the parser may deliver.                             *)
(***************************************************************************)
Cproject(d, f, p) == [dir |-> d, file |-> f, project |-> p]

\* the scenario of the design document: App x {Debug, Release} x {BoardA, BoardB}
SolutionApp ==
  [ cprojects      |-> << Cproject("app", "App.cproject.yml", "App") >>,
    buildTypes     |-> << "Debug", "Release" >>,
    targetTypes    |-> << "BoardA", "BoardB" >>,
    enableCdefault |-> FALSE ]

SolutionAppLib ==
  [ cprojects      |-> << Cproject("app", "App.cproject.yml", "App"),
                          Cproject("lib", "Lib.cproject.yml", "Lib") >>,
    buildTypes     |-> << "Debug" >>,
    targetTypes    |-> << "BoardA", "BoardB" >>,
    enableCdefault |-> TRUE ]

SolutionSameDir ==
  [ cprojects      |-> << Cproject("src", "App.cproject.yml", "App"),
                          Cproject("src", "Lib.cproject.yml", "Lib") >>,
    buildTypes     |-> << "Debug" >>,
    targetTypes    |-> << "BoardA" >>,
    enableCdefault |-> FALSE ]

SolutionSameName ==
  [ cprojects      |-> << Cproject("one", "App.cproject.yml", "App"),
                          Cproject("two", "App.cproject.yml", "App") >>,
    buildTypes     |-> << "Debug" >>,
    targetTypes    |-> << "BoardA" >>,
    enableCdefault |-> FALSE ]

SolutionEmpty ==
  [ cprojects      |-> << >>,
    buildTypes     |-> << "Debug" >>,
    targetTypes    |-> << "BoardA" >>,
    enableCdefault |-> FALSE ]

Solutions ==
  { SolutionApp, SolutionAppLib, SolutionSameDir, SolutionSameName, SolutionEmpty }

NoSolution ==
  [ cprojects |-> << >>, buildTypes |-> << >>, targetTypes |-> << >>,
    enableCdefault |-> FALSE ]

(***************************************************************************)
(* The worker (ProjMgrWorker), as far as ProjMgr depends on it.            *)
(***************************************************************************)
\* the contexts one project descriptor expands to: build-types x target-types,
\* build-type major, in declaration order
ExpandContexts(project, buildTypes, targetTypes) ==
  LET nb == Len(buildTypes)
      nt == Len(targetTypes)
  IN  [ k \in 1..(nb * nt) |->
          Ctx(project, buildTypes[((k - 1) \div nt) + 1], targetTypes[((k - 1) % nt) + 1]) ]

\* matches(pattern, concrete): every non-empty pattern field equals the concrete field
Matches(pattern, c) ==
  /\ pattern.project    \in { "", c.project }
  /\ pattern.buildType  \in { "", c.buildType }
  /\ pattern.targetType \in { "", c.targetType }

MatchesAny(patterns, c) == \E i \in 1..Len(patterns) : Matches(patterns[i], c)

\* the contexts of `ordered` that are in the set `keep`, in the order of `ordered`
RECURSIVE Restrict(_, _)
Restrict(ordered, keep) ==
  IF ordered = <<>> THEN <<>>
  ELSE IF Head(ordered) \in keep
       THEN <<Head(ordered)>> \o Restrict(Tail(ordered), keep)
       ELSE Restrict(Tail(ordered), keep)

\* Selection Policy: no pattern selects every context; otherwise every context
\* that matches at least one pattern, in declaration order
SelectContexts(patterns, ordered) ==
  IF patterns = <<>> THEN ordered
  ELSE Restrict(ordered, { c \in Range(ordered) : MatchesAny(patterns, c) })

\* the patterns that match no context at all ("missing filter")
MissingFilters(patterns, ordered) ==
  { patterns[i] : i \in { j \in 1..Len(patterns) :
                           \A c \in Range(ordered) : ~Matches(patterns[j], c) } }

\* IsContextSelected
IsContextSelected(selected, name) == \E i \in 1..Len(selected) : selected[i] = name

\* a context item as the worker creates it
ContextItem(n) == [name |-> n, rteActiveProject |-> FALSE]

\* one call to a collaborator: the operation, its argument, its answer
Call(op, arg, ok) == [op |-> op, arg |-> arg, ok |-> ok]

\* a lookup that hands out a fresh item instead of the one stored for the key
MapFresh(contexts, key) == (key :> ContextItem(NoName)) @@ contexts

\* map<string, ContextItem>::operator[]: the item of the key, created when absent
MapSubscript(contexts, key) ==
  IF key \in DOMAIN contexts THEN contexts ELSE contexts @@ (key :> ContextItem(NoName))

VARIABLES
  pc,                   \* position of the program
  m_csolutionFile,      \* ProjMgr fields
  m_command,
  m_args,
  m_context,
  m_loadPacksPolicy,
  m_verbose,
  m_contextSet,
  m_updateRteFiles,
  m_updateIdx,
  m_export,
  m_frozenPacks,
  m_codeGenerator,
  m_allContexts,
  m_processedContexts,
  m_failedContext,
  p_csolution,          \* m_parser.GetCsolution()
  w_loadPacksPolicy,    \* worker: load packs policy
  w_contexts,           \* worker: map of context items, by name
  w_ymlOrderedContexts, \* worker: context names in declaration order
  w_selectedContexts,   \* worker: the selected context names
  w_missingFilters,     \* worker: patterns that matched nothing
  orderedContexts,      \* Configure: local copy of the ordered names
  idx,                  \* position of the running loop
  error,                \* Configure: local flag
  handler,              \* the command handler that is running
  argLoad,              \* the --load option of the command line, as given
  fs_cbuildSet,         \* the cbuild-set file on disk: "unread" until looked for
  ret,                  \* return values: ParseCommandLine, Configure,
                        \* GenerateYMLConfigurationFiles, exit
  calls                 \* the calls made to the collaborators, in order

vars ==
  << pc, m_csolutionFile, m_command, m_args, m_context, m_loadPacksPolicy,
     m_verbose, m_contextSet, m_updateRteFiles, m_updateIdx, m_export,
     m_frozenPacks, m_codeGenerator, m_allContexts, m_processedContexts,
     m_failedContext, p_csolution, w_loadPacksPolicy, w_contexts,
     w_ymlOrderedContexts, w_selectedContexts, w_missingFilters,
     orderedContexts, idx, error, handler, argLoad, fs_cbuildSet, ret, calls >>

(***************************************************************************)
(* Command lines.                                                          *)
(***************************************************************************)
CsolutionFile == "sol.csolution.yml"

\* regex_match(*it, regex(".*\\.csolution\\.(yml|yaml)"))
IsCsolutionName(token) == token \in { "sol.csolution.yml", "sol.csolution.yaml" }

\* the positional arguments of the command lines considered
Positionals ==
  { << >>,
    << CsolutionFile >>,
    << "update-rte" >>,
    << "update-rte", CsolutionFile >>,
    << "frobnicate", CsolutionFile >> }

\* the --load option: absent, or one value
LoadOptions ==
  { << >>, << "" >>, << "latest" >>, << "all" >>, << "required" >>,
    << "default" >>, << "Latest" >> }

\* the arguments of the list command that have a handler
ListArgs ==
  { "packs", "boards", "devices", "components", "configs", "dependencies",
    "contexts", "generators", "layers", "toolchains", "environment" }

ConvertPositionals == { << "convert", CsolutionFile >> }

ListLayersPositionals ==
  { << "list", "layers", CsolutionFile >>, << "list", "layers" >> }

RunPositionals == { << "run", CsolutionFile >> }

\* the other list commands, with a solution, and without one where the handler
\* runs without; list with no argument and with one that is not known
OtherPositionals ==
  { << "list", a, CsolutionFile >> : a \in ListArgs \ { "layers" } }
  \cup { << "list", "packs" >>, << "list", "environment" >>,
         << "list", CsolutionFile >>, << "list", "frobnicate", CsolutionFile >> }

\* the --export and --generator options: absent, or one value
ExportOptions == { << >>, << "_export" >> }

GeneratorOptions == { << >>, << "gen" >> }

\* command lines: every way the parse can end, for the given positional
\* arguments and values of the options
Lines(positionals, loads, contexts, verboses, contextSets, noUpdateRtes, updateIdxs, exports, frozens, generators) ==
  [ throws         : BOOLEAN,      \* cxxopts rejects the options
    positional     : positionals,
    version        : BOOLEAN,
    help           : BOOLEAN,
    solutionExists : BOOLEAN,      \* RteFsUtils::Exists(m_csolutionFile)
    unmatched      : BOOLEAN,      \* parseResult.unmatched() is not empty
    load           : loads,
    context        : contexts,
    verbose        : verboses,
    contextSet     : contextSets,
    noUpdateRte    : noUpdateRtes,
    updateIdx      : updateIdxs,
    export         : exports,
    frozenPacks    : frozens,
    generator      : generators ]

\* update-rte, no command and an unknown command: --load and --no-update-rte,
\* and the context options with each other
AllCommandLines ==
  Lines(Positionals, LoadOptions, { << >> }, { FALSE }, { FALSE }, BOOLEAN,
        { FALSE }, { << >> }, { FALSE }, { << >> })
  \cup Lines(Positionals, { << >> }, PatternLists, BOOLEAN, BOOLEAN, { FALSE },
             { FALSE }, { << >> }, { FALSE }, { << >> })

\* convert: one pattern with the options of the emission, and no pattern with
\* and without --context-set
ConvertCommandLines ==
  Lines(ConvertPositionals, { << >> }, { << Ctx("App", "Debug", "") >> },
        { FALSE }, BOOLEAN, BOOLEAN, { FALSE }, ExportOptions, BOOLEAN, { << >> })
  \cup Lines(ConvertPositionals, { << >> }, { << >> }, { FALSE }, BOOLEAN,
             { FALSE }, { FALSE }, { << >> }, { FALSE }, { << >> })

\* list layers with and without --update-idx; the other commands
ListCommandLines ==
  Lines(ListLayersPositionals, { << >> }, { << >>, << Ctx("App", "Debug", "") >> },
        { FALSE }, { FALSE }, { FALSE }, BOOLEAN, { << >> }, { FALSE }, { << >> })
  \cup Lines(OtherPositionals, { << >> }, { << >> }, { FALSE }, { FALSE }, { FALSE },
             { FALSE }, { << >> }, { FALSE }, { << >> })
  \cup Lines(RunPositionals, { << >> }, { << >> }, { FALSE }, { FALSE }, { FALSE },
             { FALSE }, { << >> }, { FALSE }, GeneratorOptions)

\* the command lines considered
CommandLines == AllCommandLines \cup ConvertCommandLines \cup ListCommandLines

\* keys of the command options dictionary: <<command, sub-command>>
OptionsDict ==
  { << "update-rte", "" >>, << "convert", "" >>, << "run", "" >> }
  \cup { << "list", a >> : a \in ListArgs }

PrintUsage(cmd, subCmd) ==
  IF cmd = "" /\ subCmd = "" THEN TRUE ELSE << cmd, subCmd >> \in OptionsDict

\* the loop over the positional arguments: the last csolution name is the
\* solution, the first other token the command, the second one its argument
RECURSIVE ScanPositional(_, _)
ScanPositional(tokens, acc) ==
  IF tokens = << >> THEN acc
  ELSE LET t == Head(tokens)
           next == IF IsCsolutionName(t) THEN [acc EXCEPT !.file = t]
                   ELSE IF acc.command = "" THEN [acc EXCEPT !.command = t]
                   ELSE IF acc.args = "" THEN [acc EXCEPT !.args = t]
                   ELSE acc
       IN  ScanPositional(Tail(tokens), next)

(***************************************************************************)
(* SetLoadPacksPolicy                                                      *)
(***************************************************************************)
LoadPacksPolicies == { "DEFAULT", "LATEST", "ALL", "REQUIRED" }

\* the policy SetLoadPacksPolicy hands to the worker for the option text;
\* "" when the text is no policy (it then logs an error and returns false)
\* a lookup that falls back to the default policy for a text it does not know
PolicyForLenient(text) ==
  IF text = "latest" THEN "LATEST"
  ELSE IF text = "all" THEN "ALL"
  ELSE IF text = "required" THEN "REQUIRED"
  ELSE "DEFAULT"

PolicyFor(text) ==
  IF text = "" THEN "DEFAULT"
  ELSE IF text = "latest" THEN "LATEST"
  ELSE IF text = "all" THEN "ALL"
  ELSE IF text = "required" THEN "REQUIRED"
  ELSE ""

SetLoadPacksPolicyOk(text) == PolicyFor(text) # ""

SetWorkerPolicy(text) == Call("SetLoadPacksPolicy", NoName, TRUE)

(***************************************************************************)
(* Initial state: the ProjMgr instance after construction.                 *)
(***************************************************************************)
NoRet == [parse |-> << >>, configure |-> << >>, yml |-> << >>, exit |-> << >>]

Init ==
  /\ pc = "start"
  /\ m_csolutionFile = ""
  /\ m_command = ""
  /\ m_args = ""
  /\ m_context = << >>
  /\ m_loadPacksPolicy = ""
  /\ m_verbose = FALSE
  /\ m_contextSet = FALSE
  /\ m_updateRteFiles = TRUE
  /\ m_updateIdx = FALSE
  /\ m_export = ""
  /\ m_frozenPacks = FALSE
  /\ m_codeGenerator = ""
  /\ m_allContexts = << >>
  /\ m_processedContexts = << >>
  /\ m_failedContext = { }
  /\ p_csolution = NoSolution
  /\ w_loadPacksPolicy = "DEFAULT"
  /\ w_contexts = << >>
  /\ w_ymlOrderedContexts = << >>
  /\ w_selectedContexts = << >>
  /\ w_missingFilters = { }
  /\ orderedContexts = << >>
  /\ idx = 0
  /\ error = FALSE
  /\ handler = ""
  /\ argLoad = << >>
  /\ fs_cbuildSet = "unread"
  /\ ret = NoRet
  /\ calls = << >>

(***************************************************************************)
(* ParseCommandLine                                                        *)
(***************************************************************************)
\* the value the parse of command line cl returns
ParseResultCode(cl) ==
  LET scan == ScanPositional(cl.positional, [file |-> "", command |-> "", args |-> ""])
      loadText == IF cl.load = << >> THEN "" ELSE cl.load[1]
  IN  IF cl.throws THEN ERROR
      ELSE IF cl.positional = << >>
        THEN (IF cl.version THEN HELP_REQUESTED
              ELSE IF PrintUsage("", "") THEN HELP_REQUESTED ELSE ERROR)
      ELSE IF scan.file # "" /\ ~cl.solutionExists THEN ERROR
      ELSE IF cl.unmatched THEN ERROR
      ELSE IF cl.help
        THEN (IF PrintUsage(scan.command, scan.args) THEN HELP_REQUESTED ELSE ERROR)
      ELSE IF ~SetLoadPacksPolicyOk(loadText) THEN ERROR
      ELSE SUCCESS

\* whether the parse of cl gets as far as calling SetLoadPacksPolicy
ReachesSetLoadPacksPolicy(cl) ==
  LET scan == ScanPositional(cl.positional, [file |-> "", command |-> "", args |-> ""])
  IN  /\ ~cl.throws
      /\ cl.positional # << >>
      /\ ~(scan.file # "" /\ ~cl.solutionExists)
      /\ ~cl.unmatched
      /\ ~cl.help

\* the calls the parse of cl makes: the version or usage text, or the policy
\* handed to the worker
ParseCalls(cl) ==
  LET scan == ScanPositional(cl.positional, [file |-> "", command |-> "", args |-> ""])
      loadText == IF cl.load = << >> THEN "" ELSE cl.load[1]
  IN  IF cl.throws THEN << >>
      ELSE IF cl.positional = << >>
        THEN (IF cl.version THEN << Call("ShowVersion", NoName, TRUE) >>
              ELSE << Call("PrintUsage", NoName, PrintUsage("", "")) >>)
      ELSE IF (scan.file # "" /\ ~cl.solutionExists) \/ cl.unmatched THEN << >>
      ELSE IF cl.help
        THEN << Call("PrintUsage", NoName, PrintUsage(scan.command, scan.args)) >>
      ELSE IF SetLoadPacksPolicyOk(loadText) THEN << SetWorkerPolicy(loadText) >>
      ELSE << >>

ParseCommandLine ==
  /\ pc = "start"
  /\ \E cl \in CommandLines :
       LET scan == ScanPositional(cl.positional,
                                  [file |-> "", command |-> "", args |-> ""])
           loadText == IF cl.load = << >> THEN "" ELSE cl.load[1]
           flagsSet == ~cl.throws
           positionalSeen == flagsSet /\ cl.positional # << >>
           optionsRead == positionalSeen /\ ~(scan.file # "" /\ ~cl.solutionExists)
           policyCall == ReachesSetLoadPacksPolicy(cl) /\ SetLoadPacksPolicyOk(loadText)
       IN  /\ m_verbose' = (IF flagsSet THEN cl.verbose ELSE m_verbose)
           /\ m_contextSet' = (IF flagsSet THEN cl.contextSet ELSE m_contextSet)
           /\ m_updateRteFiles' = (IF flagsSet THEN ~cl.noUpdateRte ELSE m_updateRteFiles)
           /\ m_updateIdx' = (IF flagsSet THEN cl.updateIdx ELSE m_updateIdx)
           /\ m_frozenPacks' = (IF flagsSet THEN cl.frozenPacks ELSE m_frozenPacks)
           /\ m_export' = (IF optionsRead /\ cl.export # << >>
                           THEN cl.export[1] ELSE m_export)
           /\ m_codeGenerator' = (IF optionsRead /\ cl.generator # << >>
                                  THEN cl.generator[1] ELSE m_codeGenerator)
           /\ m_csolutionFile' = (IF positionalSeen THEN scan.file ELSE m_csolutionFile)
           /\ m_command' = (IF positionalSeen THEN scan.command ELSE m_command)
           /\ m_args' = (IF positionalSeen THEN scan.args ELSE m_args)
           /\ m_context' = (IF optionsRead /\ cl.context # << >>
                            THEN cl.context ELSE m_context)
           /\ m_loadPacksPolicy' = (IF optionsRead /\ cl.load # << >>
                                    THEN loadText ELSE m_loadPacksPolicy)
           /\ w_loadPacksPolicy' = (IF policyCall THEN PolicyFor(loadText)
                                    ELSE w_loadPacksPolicy)
           /\ calls' = calls \o ParseCalls(cl)
           /\ argLoad' = cl.load
           /\ ret' = [ret EXCEPT !.parse = << ParseResultCode(cl) >>]
  /\ pc' = "parsed"
  /\ UNCHANGED << m_allContexts, m_processedContexts, m_failedContext, p_csolution,
                  w_contexts, w_ymlOrderedContexts, w_selectedContexts,
                  w_missingFilters, orderedContexts, idx, error, handler,
                  fs_cbuildSet >>

(***************************************************************************)
(* RunProjMgr and ProcessCommands                                          *)
(***************************************************************************)
Exit(code) ==
  /\ pc' = "exit"
  /\ ret' = [ret EXCEPT !.exit = << code >>]

\* a program that ends with whatever ParseCommandLine returned
ParseExitUnchanged(res) == res

\* return res > 0 ? res : ErrorCode::SUCCESS
ParseExit(res) == IF res > 0 THEN res ELSE SUCCESS

\* ParseCommandLine did not return 0: the program ends with that result
RunProjMgrReturn ==
  /\ pc = "parsed"
  /\ ret.parse[1] # 0
  /\ Exit(ParseExit(ret.parse[1]))
  /\ UNCHANGED << fs_cbuildSet, m_csolutionFile, m_command, m_args, m_context, m_loadPacksPolicy,
                  m_verbose, m_contextSet, m_updateRteFiles, m_updateIdx, m_export,
                  m_frozenPacks, m_codeGenerator, m_allContexts,
                  m_processedContexts, m_failedContext, p_csolution,
                  w_loadPacksPolicy, w_contexts, w_ymlOrderedContexts,
                  w_selectedContexts, w_missingFilters, orderedContexts, idx,
                  error, handler, argLoad, calls >>

\* the handler ProcessCommands runs for the command: "" when there is none
HandlerOf(command, args) ==
  IF command = "list"
  THEN (IF args = "packs" THEN "RunListPacks"
        ELSE IF args = "boards" THEN "RunListBoards"
        ELSE IF args = "devices" THEN "RunListDevices"
        ELSE IF args = "components" THEN "RunListComponents"
        ELSE IF args = "configs" THEN "RunListConfigs"
        ELSE IF args = "dependencies" THEN "RunListDependencies"
        ELSE IF args = "contexts" THEN "RunListContexts"
        ELSE IF args = "generators" THEN "RunListGenerators"
        ELSE IF args = "layers" THEN "RunListLayers"
        ELSE IF args = "toolchains" THEN "RunListToolchains"
        ELSE IF args = "environment" THEN "RunListEnvironment"
        ELSE "")
  ELSE IF command = "update-rte" THEN "RunConfigure"
  ELSE IF command = "convert" THEN "RunConvert"
  ELSE IF command = "run" THEN "RunCodeGenerator"
  ELSE ""

\* the handlers that start with Configure
ConfigureHandlers == { "RunConfigure", "RunConvert" }

\* the handlers that call PopulateContexts only when a csolution file is given
PopulatesWithFile ==
  { "RunListPacks", "RunListBoards", "RunListDevices", "RunListComponents",
    "RunListConfigs", "RunListLayers", "RunListToolchains" }

\* where the handler continues once the contexts are there
AfterPopulate(h) ==
  IF h \in ConfigureHandlers THEN "ConfigureSelect"
  ELSE IF h = "RunListLayers" THEN "RunListLayers"
  ELSE IF h = "RunCodeGenerator" THEN "ExecuteGenerator"
  ELSE "RunList"

\* the first step of the handler
EntryOf(h, csolutionFile) ==
  IF h = "RunListEnvironment" THEN "RunListEnvironment"
  ELSE IF h = "RunCodeGenerator" THEN "RunCodeGenerator"
  ELSE IF h \in PopulatesWithFile /\ csolutionFile = "" THEN AfterPopulate(h)
  ELSE "PopulateContexts"

\* a dispatch that lets the result of every handler decide
CommandResultOfHandler(command, args, ok, varDefineError) ==
  IF ~ok THEN ERROR ELSE SUCCESS

\* the value ProcessCommands returns once the handler of the command has
\* returned ok; varDefineError is the answer of HasVarDefineError
CommandResult(command, args, ok, varDefineError) ==
  IF command = "list" /\ args = "environment" THEN SUCCESS
  ELSE IF ~ok THEN ERROR
  ELSE IF command = "convert" /\ varDefineError THEN VARIABLE_NOT_DEFINED
  ELSE SUCCESS

\* the handler returns ok after the calls `made`: ProcessCommands asks the
\* worker for a variable definition error after a convert that succeeded, and
\* its result is the result of the program
HandlerReturns(ok, made) ==
  LET asks == handler = "RunConvert" /\ ok
  IN  \E varDefineError \in (IF asks THEN BOOLEAN ELSE { FALSE }) :
        /\ calls' = made \o << Call(handler, NoName, ok) >>
                     \o (IF asks
                         THEN << Call("HasVarDefineError", NoName, varDefineError) >>
                         ELSE << >>)
        /\ pc' = "exit"
        /\ ret' = [ret EXCEPT !.exit =
                     << CommandResult(m_command, m_args, ok, varDefineError) >>]

\* InitializeModel, then ProcessCommands up to the call of the handler
ProcessCommands ==
  /\ pc = "parsed"
  /\ ret.parse[1] = 0
  /\ \E modelOk \in BOOLEAN :
       /\ calls' = Append(calls, Call("InitializeModel", NoName, modelOk))
       /\ IF ~modelOk
          THEN Exit(ERROR) /\ UNCHANGED handler
          ELSE IF HandlerOf(m_command, m_args) = ""
          THEN Exit(ERROR) /\ UNCHANGED handler
          ELSE /\ handler' = HandlerOf(m_command, m_args)
               /\ pc' = EntryOf(HandlerOf(m_command, m_args), m_csolutionFile)
               /\ UNCHANGED ret
  /\ UNCHANGED << fs_cbuildSet, m_csolutionFile, m_command, m_args, m_context, m_loadPacksPolicy,
                  m_verbose, m_contextSet, m_updateRteFiles, m_updateIdx, m_export,
                  m_frozenPacks, m_codeGenerator, m_allContexts,
                  m_processedContexts, m_failedContext, p_csolution,
                  w_loadPacksPolicy, w_contexts, w_ymlOrderedContexts,
                  w_selectedContexts, w_missingFilters, orderedContexts, idx,
                  error, argLoad >>

(***************************************************************************)
(* PopulateContexts                                                        *)
(***************************************************************************)
HasDuplicate(s) == \E i, j \in 1..Len(s) : i < j /\ s[i] = s[j]

FileNames(cprojects) == [ i \in 1..Len(cprojects) |-> cprojects[i].file ]

DirNames(cprojects) == [ i \in 1..Len(cprojects) |-> cprojects[i].dir ]

\* a check that lets every list of cprojects pass
UniqueNamesNotChecked(cprojects) == TRUE

\* the check of unique cproject file names: false makes PopulateContexts fail
UniqueNamesOk(cprojects) ==
  ~(Len(cprojects) > 1 /\ HasDuplicate(FileNames(cprojects)))

SharedDirWarning(cprojects) ==
  Len(cprojects) > 1 /\ HasDuplicate(DirNames(cprojects))

ProjectArg(cproject) == Ctx(cproject.project, "", "")

\* a setup failure that is logged but not returned: the run goes on to the loop
ConfigureIgnoresSetupFailure ==
  /\ pc' = "ConfigureLoop"
  /\ UNCHANGED ret

\* Configure returns false before its loop
ConfigureFailsInSetup ==
  /\ pc' = "ConfigureDone"
  /\ ret' = [ret EXCEPT !.configure = << FALSE >>]

\* PopulateContexts returns false after the calls `made`: Configure returns
\* false, every other handler returns false itself
PopulateContextsFails(made) ==
  IF handler \in ConfigureHandlers
  THEN ConfigureFailsInSetup /\ calls' = made
  ELSE HandlerReturns(FALSE, made)

\* what the parser may deliver for the csolution file: a file that was parsed
\* before on this instance delivers the same solution again
ParsedSolutions(csolution) ==
  IF csolution = NoSolution THEN Solutions ELSE { csolution }

\* the parse of the csolution and cdefault files and the check of the cprojects
PopulateContextsParse ==
  /\ pc = "PopulateContexts"
  /\ IF m_csolutionFile = ""
     THEN /\ PopulateContextsFails(calls)
          /\ UNCHANGED << p_csolution, idx >>
     ELSE \E sol \in ParsedSolutions(p_csolution), solOk \in BOOLEAN, cdefaultFound \in BOOLEAN,
             cdefaultOk \in BOOLEAN :
            LET c1 == Append(calls, Call("ParseCsolution", NoName, solOk))
                useCdefault == sol.enableCdefault /\ cdefaultFound
                c2 == IF useCdefault
                      THEN Append(c1, Call("ParseCdefault", NoName, cdefaultOk))
                      ELSE c1
                c3 == IF SharedDirWarning(sol.cprojects)
                      THEN Append(c2, Call("Warn", NoName, TRUE))
                      ELSE c2
            IN  IF ~solOk
                THEN /\ PopulateContextsFails(c1)
                     /\ UNCHANGED << p_csolution, idx >>
                ELSE IF useCdefault /\ ~cdefaultOk
                THEN /\ PopulateContextsFails(c2)
                     /\ p_csolution' = sol
                     /\ UNCHANGED idx
                ELSE IF ~UniqueNamesOk(sol.cprojects)
                THEN /\ PopulateContextsFails(c2)
                     /\ p_csolution' = sol
                     /\ UNCHANGED idx
                ELSE /\ pc' = "ParseCprojects"
                     /\ calls' = c3
                     /\ p_csolution' = sol
                     /\ idx' = 1
                     /\ UNCHANGED ret
  /\ UNCHANGED << fs_cbuildSet, m_csolutionFile, m_command, m_args, m_context, m_loadPacksPolicy,
                  m_verbose, m_contextSet, m_updateRteFiles, m_updateIdx, m_export,
                  m_frozenPacks, m_codeGenerator, m_allContexts,
                  m_processedContexts, m_failedContext, w_loadPacksPolicy,
                  w_contexts, w_ymlOrderedContexts, w_selectedContexts,
                  w_missingFilters, orderedContexts, error, handler, argLoad >>

\* one turn of the loop that parses the cprojects
ParseCproject ==
  /\ pc = "ParseCprojects"
  /\ idx <= Len(p_csolution.cprojects)
  /\ \E found \in BOOLEAN, ok \in BOOLEAN :
       LET made == Append(calls, Call("ParseCproject",
                                      ProjectArg(p_csolution.cprojects[idx]), ok))
       IN  IF ~found
           THEN PopulateContextsFails(calls) /\ UNCHANGED idx
           ELSE IF ok
           THEN calls' = made /\ idx' = idx + 1 /\ UNCHANGED << pc, ret >>
           ELSE PopulateContextsFails(made) /\ UNCHANGED idx
  /\ UNCHANGED << fs_cbuildSet, m_csolutionFile, m_command, m_args, m_context, m_loadPacksPolicy,
                  m_verbose, m_contextSet, m_updateRteFiles, m_updateIdx, m_export,
                  m_frozenPacks, m_codeGenerator, m_allContexts,
                  m_processedContexts, m_failedContext, p_csolution,
                  w_loadPacksPolicy, w_contexts, w_ymlOrderedContexts,
                  w_selectedContexts, w_missingFilters, orderedContexts, error,
                  handler, argLoad >>

\* the cprojects are parsed: toolchain, output and root directory are handed
\* to the worker and the loop over the context descriptors starts
StartAddContexts ==
  /\ pc = "ParseCprojects"
  /\ idx > Len(p_csolution.cprojects)
  /\ pc' = "AddContexts"
  /\ idx' = 1
  /\ UNCHANGED << fs_cbuildSet, m_csolutionFile, m_command, m_args, m_context, m_loadPacksPolicy,
                  m_verbose, m_contextSet, m_updateRteFiles, m_updateIdx, m_export,
                  m_frozenPacks, m_codeGenerator, m_allContexts,
                  m_processedContexts, m_failedContext, p_csolution,
                  w_loadPacksPolicy, w_contexts, w_ymlOrderedContexts,
                  w_selectedContexts, w_missingFilters, orderedContexts, error,
                  handler, argLoad, ret, calls >>

\* the worker's context list after AddContexts of one descriptor: the contexts
\* of the descriptor follow those the worker holds; the universe holds a
\* context once, so that one it holds already keeps its place
AddedNames(ordered, cproject) ==
  LET new == ExpandContexts(cproject.project, p_csolution.buildTypes,
                            p_csolution.targetTypes)
  IN  ordered \o Restrict(new, Range(new) \ Range(ordered))

AddedItems(contexts, cproject) ==
  LET new == Range(ExpandContexts(cproject.project, p_csolution.buildTypes,
                                  p_csolution.targetTypes))
  IN  [ n \in (DOMAIN contexts) \cup new |->
          IF n \in new THEN ContextItem(n) ELSE contexts[n] ]

\* a loop that goes on to the next descriptor when AddContexts has failed
AddContextsNeverReturns(ok) == FALSE

\* if (!m_worker.AddContexts(...)) return false
AddContextsReturns(ok) == ~ok

\* one turn of the loop over the context descriptors
AddContexts ==
  /\ pc = "AddContexts"
  /\ idx <= Len(p_csolution.cprojects)
  /\ \E ok \in BOOLEAN :
       LET cproject == p_csolution.cprojects[idx]
           made == Append(calls, Call("AddContexts", ProjectArg(cproject), ok))
       IN  IF AddContextsReturns(ok)
           THEN /\ PopulateContextsFails(made)
                /\ UNCHANGED << w_ymlOrderedContexts, w_contexts, idx >>
           ELSE /\ calls' = made
                /\ w_ymlOrderedContexts' = (IF ok THEN AddedNames(w_ymlOrderedContexts, cproject)
                                            ELSE w_ymlOrderedContexts)
                /\ w_contexts' = (IF ok THEN AddedItems(w_contexts, cproject)
                                  ELSE w_contexts)
                /\ idx' = idx + 1
                /\ UNCHANGED << pc, ret >>
  /\ UNCHANGED << fs_cbuildSet, m_csolutionFile, m_command, m_args, m_context, m_loadPacksPolicy,
                  m_verbose, m_contextSet, m_updateRteFiles, m_updateIdx, m_export,
                  m_frozenPacks, m_codeGenerator, m_allContexts,
                  m_processedContexts, m_failedContext, p_csolution,
                  w_loadPacksPolicy, w_selectedContexts, w_missingFilters,
                  orderedContexts, error, handler, argLoad >>

\* every descriptor is added: RetrieveAllContextTypes, and PopulateContexts
\* returns true
RetrieveAllContextTypes ==
  /\ pc = "AddContexts"
  /\ idx > Len(p_csolution.cprojects)
  /\ calls' = Append(calls, Call("RetrieveAllContextTypes", NoName, TRUE))
  /\ pc' = AfterPopulate(handler)
  /\ UNCHANGED << fs_cbuildSet, m_csolutionFile, m_command, m_args, m_context, m_loadPacksPolicy,
                  m_verbose, m_contextSet, m_updateRteFiles, m_updateIdx, m_export,
                  m_frozenPacks, m_codeGenerator, m_allContexts,
                  m_processedContexts, m_failedContext, p_csolution,
                  w_loadPacksPolicy, w_contexts, w_ymlOrderedContexts,
                  w_selectedContexts, w_missingFilters, orderedContexts, idx,
                  error, handler, argLoad, ret >>

(***************************************************************************)
(* Configure                                                               *)
(***************************************************************************)
\* the context sets a cbuild-set file may pin, for the worker's ordered list
PinnedChoices(ordered) ==
  IF ordered = << >> THEN { << >> }
  ELSE { << ordered[1] >>, << ordered[Len(ordered)] >> }

\* the worker's ParseContextSelection: false when patterns are given and no
\* context matches any of them
SelectionOk(patterns, ordered) ==
  patterns = << >> \/ SelectContexts(patterns, ordered) # << >>

\* a Configure that does not clear the failure set
KeepFailed(failed) == failed

\* m_failedContext.clear()
ClearFailed(failed) == { }

\* m_processedContexts.clear()
ClearProcessed(processed) == << >>

\* m_allContexts.clear()
ClearAll(all) == << >>

\* the contexts are populated: ParseContextSelection, then the ordered list is
\* fetched and the three collections are cleared
ParseContextSelection ==
  /\ pc = "ConfigureSelect"
  /\ LET checkCbuildSet == (Len(m_context) = 0) /\ m_contextSet
     IN  \E workerOk \in BOOLEAN,
            setExists \in (IF checkCbuildSet THEN BOOLEAN ELSE { FALSE }),
            pinned \in (IF checkCbuildSet THEN PinnedChoices(w_ymlOrderedContexts)
                        ELSE { << >> }) :
           LET ok == workerOk /\ SelectionOk(m_context, w_ymlOrderedContexts)
               selected == IF checkCbuildSet /\ setExists THEN pinned
                           ELSE SelectContexts(m_context, w_ymlOrderedContexts)
           IN  /\ calls' = Append(calls, Call("ParseContextSelection", NoName, ok))
               /\ IF ~ok
                  THEN /\ ConfigureFailsInSetup
                       /\ UNCHANGED << w_selectedContexts, w_missingFilters,
                                       orderedContexts, error, m_allContexts,
                                       m_processedContexts, m_failedContext, idx,
                                       fs_cbuildSet >>
                  ELSE /\ w_selectedContexts' = selected
                       /\ fs_cbuildSet' = (IF ~checkCbuildSet THEN fs_cbuildSet
                                           ELSE IF setExists THEN "found" ELSE "absent")
                       /\ w_missingFilters' = MissingFilters(m_context, w_ymlOrderedContexts)
                       /\ orderedContexts' = w_ymlOrderedContexts
                       /\ error' = FALSE
                       /\ m_allContexts' = ClearAll(m_allContexts)
                       /\ m_processedContexts' = ClearProcessed(m_processedContexts)
                       /\ m_failedContext' = ClearFailed(m_failedContext)
                       /\ idx' = 1
                       /\ pc' = "ConfigureLoop"
                       /\ UNCHANGED ret
  /\ UNCHANGED << m_csolutionFile, m_command, m_args, m_context, m_loadPacksPolicy,
                  m_verbose, m_contextSet, m_updateRteFiles, m_updateIdx, m_export,
                  m_frozenPacks, m_codeGenerator, p_csolution,
                  w_loadPacksPolicy, w_contexts, w_ymlOrderedContexts, handler,
                  argLoad >>

\* what ProcessContext may answer: its result, and whether it left the context
\* with an active RTE project
Outcomes ==
  { [ok |-> TRUE,  rte |-> TRUE],
    [ok |-> FALSE, rte |-> TRUE],
    [ok |-> FALSE, rte |-> FALSE] }

\* a loop that stops at the first context that fails
LoopBreakOnFailure(i, ok) == IF ok THEN i + 1 ELSE Len(orderedContexts) + 1

\* the loop goes on with the next context, whatever ProcessContext returned
LoopAdvance(i, ok) == i + 1

\* m_failedContext after ProcessContext of the item returned ok
RecordFailure(failed, item, ok) ==
  IF ~ok THEN failed \cup { item.name } ELSE failed

\* an error flag that is overwritten by every context: the last one decides
ErrorOfLast(err, ok) == ~ok

\* the error flag after ProcessContext returned ok
ErrorAfter(err, ok) == IF ~ok THEN TRUE ELSE err

\* an all-contexts list that grows at its front
PushAllFront(all, key) == << key >> \o all

\* m_allContexts.push_back(&contextItem)
PushAll(all, key) == Append(all, key)

\* a processed list that keeps only the contexts that succeeded
PushSucceeded(processed, key, ok) == IF ok THEN Append(processed, key) ELSE processed

\* a processed list that grows at its front
PushFront(processed, key, ok) == << key >> \o processed

\* m_processedContexts.push_back(&contextItem), whatever ProcessContext returned
PushProcessed(processed, key, ok) == Append(processed, key)

\* a loop that hands every context to ProcessContext
ProcessesAll(selected, contextName) == TRUE

\* whether the loop hands the context to ProcessContext
Processes(selected, contextName) == IsContextSelected(selected, contextName)

\* one turn of the loop over the ordered contexts
ConfigureLoop ==
  /\ pc = "ConfigureLoop"
  /\ idx \in 1..Len(orderedContexts)
  /\ LET contextName == orderedContexts[idx]
         contexts == MapSubscript(w_contexts, contextName)
     IN  /\ m_allContexts' = PushAll(m_allContexts, contextName)
         /\ IF ~Processes(w_selectedContexts, contextName)
            THEN /\ w_contexts' = contexts
                 /\ idx' = idx + 1
                 /\ UNCHANGED << m_processedContexts, m_failedContext, error, calls >>
            ELSE \E out \in Outcomes :
                   LET item == [contexts[contextName] EXCEPT !.rteActiveProject = out.rte]
                   IN  /\ w_contexts' = [contexts EXCEPT ![contextName] = item]
                       /\ calls' = Append(calls, Call("ProcessContext", contextName, out.ok))
                       /\ m_failedContext' = RecordFailure(m_failedContext, item, out.ok)
                       /\ error' = ErrorAfter(error, out.ok)
                       /\ m_processedContexts' = PushProcessed(m_processedContexts, contextName, out.ok)
                       /\ idx' = LoopAdvance(idx, out.ok)
  /\ UNCHANGED << pc, fs_cbuildSet, m_csolutionFile, m_command, m_args, m_context,
                  m_loadPacksPolicy, m_verbose, m_contextSet, m_updateRteFiles,
                  m_updateIdx, m_export, m_frozenPacks, m_codeGenerator,
                  p_csolution, w_loadPacksPolicy, w_ymlOrderedContexts,
                  w_selectedContexts, w_missingFilters, orderedContexts, handler,
                  argLoad, ret >>

\* a result that counts a missing filter as a failure
ConfigureResultStrict(err) == ~err /\ w_missingFilters = { }

\* the value Configure returns after its loop
ConfigureResult(err) == ~err

\* a run that returns at once when a context failed, printing nothing
AfterLoopCallsOnSuccess(verbose, err) ==
  IF err THEN << >>
  ELSE << Call("PrintMissingFilters", NoName, TRUE) >>
       \o (IF verbose THEN << Call("ListConfigFiles", NoName, TRUE) >> ELSE << >>)

\* the calls Configure makes after its loop, whatever the error flag
AfterLoopCalls(verbose, err) ==
  << Call("PrintMissingFilters", NoName, TRUE) >>
  \o (IF verbose THEN << Call("ListConfigFiles", NoName, TRUE) >> ELSE << >>)

\* the loop is over: the missing filters are printed, the config files listed
\* when verbose, and Configure returns
ConfigureFinish ==
  /\ pc = "ConfigureLoop"
  /\ idx \notin 1..Len(orderedContexts)
  /\ calls' = calls \o AfterLoopCalls(m_verbose, error)
  /\ ret' = [ret EXCEPT !.configure = << ConfigureResult(error) >>]
  /\ pc' = "ConfigureDone"
  /\ UNCHANGED << fs_cbuildSet, m_csolutionFile, m_command, m_args, m_context, m_loadPacksPolicy,
                  m_verbose, m_contextSet, m_updateRteFiles, m_updateIdx, m_export,
                  m_frozenPacks, m_codeGenerator, m_allContexts,
                  m_processedContexts, m_failedContext, p_csolution,
                  w_loadPacksPolicy, w_contexts, w_ymlOrderedContexts,
                  w_selectedContexts, w_missingFilters, orderedContexts, idx,
                  error, handler, argLoad >>

(***************************************************************************)
(* updateRte and RunConfigure                                              *)
(***************************************************************************)
RECURSIVE UpdateRteCalls(_, _)
UpdateRteCalls(processed, contexts) ==
  IF processed = << >> THEN << >>
  ELSE (IF contexts[Head(processed)].rteActiveProject
        THEN << Call("UpdateRte", Head(processed), TRUE) >> ELSE << >>)
       \o UpdateRteCalls(Tail(processed), contexts)

\* an update that does not look at the flag
UpdateRteAlways(updateRteFiles, processed, contexts) ==
  UpdateRteCalls(processed, contexts)

\* the calls of updateRte
UpdateRte(updateRteFiles, processed, contexts) ==
  IF updateRteFiles THEN UpdateRteCalls(processed, contexts) ELSE << >>

\* Configure has returned to RunConfigure: updateRte, and the result of
\* Configure becomes the result of the command and of the program
RunConfigureReturn ==
  /\ pc = "ConfigureDone"
  /\ handler = "RunConfigure"
  /\ HandlerReturns(ret.configure[1],
                    calls \o UpdateRte(m_updateRteFiles, m_processedContexts, w_contexts))
  /\ UNCHANGED << fs_cbuildSet, m_csolutionFile, m_command, m_args, m_context, m_loadPacksPolicy,
                  m_verbose, m_contextSet, m_updateRteFiles, m_updateIdx, m_export,
                  m_frozenPacks, m_codeGenerator, m_allContexts,
                  m_processedContexts, m_failedContext, p_csolution,
                  w_loadPacksPolicy, w_contexts, w_ymlOrderedContexts,
                  w_selectedContexts, w_missingFilters, orderedContexts, idx,
                  error, handler, argLoad >>

(***************************************************************************)
(* GenerateYMLConfigurationFiles and RunConvert                            *)
(***************************************************************************)
\* one step of the emission: the calls it makes and whether it succeeded
Step(made, ok) == [calls |-> made, ok |-> ok]

\* an error flag that is never raised
ConvErrorNever(failed, name) == FALSE

\* bool convError = (m_failedContext.find(contextItem->name) != end)
ConvError(failed, name) == name \in failed

\* the loop over the processed contexts from position i on: GenerateCbuild of
\* each, up to and with the one at position failAt, which fails (0: none does)
RECURSIVE GenerateCbuildCalls(_, _, _, _, _)
GenerateCbuildCalls(processed, contexts, failed, i, failAt) ==
  IF i > Len(processed) THEN << >>
  ELSE LET op == IF ConvError(failed, contexts[processed[i]].name)
                 THEN "GenerateCbuild(convError)" ELSE "GenerateCbuild"
           made == << Call(op, processed[i], i # failAt) >>
       IN  IF i = failAt THEN made
           ELSE made \o GenerateCbuildCalls(processed, contexts, failed, i + 1, failAt)

\* a cbuild-set step that hands the processed contexts to the emitter
\* whenever a context set is requested
CbuildSetStepAlways(contextSet, patterns, processed, setExists, setOk) ==
  IF ~contextSet THEN Step(<< >>, TRUE)
  ELSE Step(<< Call("GenerateCbuildSet", NoName, setOk) >>, setOk)

\* the cbuild-set step: a warning when no pattern is given and the file is
\* not there, else the file is generated for a processed list that is not empty
CbuildSetStep(contextSet, patterns, processed, setExists, setOk) ==
  IF ~contextSet THEN Step(<< >>, TRUE)
  ELSE IF Len(patterns) = 0 /\ ~setExists
    THEN Step(<< Call("Warn(cbuild-set)", NoName, TRUE) >>, TRUE)
  ELSE IF processed # << >>
    THEN Step(<< Call("GenerateCbuildSet", NoName, setOk) >>, setOk)
  ELSE Step(<< >>, TRUE)

\* the steps of GenerateYMLConfigurationFiles, in the order of the code, for
\* the answers a of the emitter and of the file system
YmlSteps(a) ==
  << Step(<< Call("GenerateCbuildPack", NoName, a.pack) >>, a.pack),
     Step(UpdateRte(m_updateRteFiles, m_processedContexts, w_contexts), TRUE),
     IF m_allContexts # << >>
     THEN Step(<< Call("GenerateCbuildIndex", NoName, a.index) >>, a.index)
     ELSE Step(<< >>, TRUE),
     CbuildSetStep(m_contextSet, m_context, m_processedContexts, a.setExists, a.set),
     Step(GenerateCbuildCalls(m_processedContexts, w_contexts, m_failedContext, 1,
                              a.failAt),
          a.failAt = 0) >>

\* an emission that goes on with the next step when one has failed
RECURSIVE ThroughFailure(_)
ThroughFailure(steps) ==
  IF steps = << >> THEN << >>
  ELSE Head(steps).calls \o ThroughFailure(Tail(steps))

\* the calls made: those of every step up to and with the first that fails
RECURSIVE UntilFailure(_)
UntilFailure(steps) ==
  IF steps = << >> THEN << >>
  ELSE IF ~Head(steps).ok THEN Head(steps).calls
  ELSE Head(steps).calls \o UntilFailure(Tail(steps))

StepsOk(steps) == \A i \in 1..Len(steps) : steps[i].ok

\* whether the steps get as far as step n
Reaches(steps, n) == \A i \in 1..(n - 1) : steps[i].ok

\* Configure has returned to RunConvert, whatever its result:
\* GenerateYMLConfigurationFiles
GenerateYMLConfigurationFiles ==
  /\ pc = "ConfigureDone"
  /\ handler = "RunConvert"
  /\ \E packOk \in BOOLEAN, indexOk \in BOOLEAN, setOk \in BOOLEAN,
        setExists \in (IF fs_cbuildSet = "unread" THEN BOOLEAN
                       ELSE { fs_cbuildSet = "found" }),
        failAt \in 0..Len(m_processedContexts) :
       LET a == [pack |-> packOk, index |-> indexOk, set |-> setOk,
                 setExists |-> setExists, failAt |-> failAt]
           steps == YmlSteps(a)
           looksForSet == Reaches(steps, 4) /\ m_contextSet /\ Len(m_context) = 0
       IN  /\ calls' = calls \o UntilFailure(steps)
           /\ ret' = [ret EXCEPT !.yml = << StepsOk(steps) >>]
           /\ fs_cbuildSet' = (IF ~looksForSet THEN fs_cbuildSet
                               ELSE IF setExists THEN "found" ELSE "absent")
  /\ pc' = "GenerateCprj"
  /\ UNCHANGED << m_csolutionFile, m_command, m_args, m_context, m_loadPacksPolicy,
                  m_verbose, m_contextSet, m_updateRteFiles, m_updateIdx, m_export,
                  m_frozenPacks, m_codeGenerator, m_allContexts,
                  m_processedContexts, m_failedContext, p_csolution,
                  w_loadPacksPolicy, w_contexts, w_ymlOrderedContexts,
                  w_selectedContexts, w_missingFilters, orderedContexts, idx,
                  error, handler, argLoad >>

\* the loop over the processed contexts from position i on: the cprj of each
\* and, with --export, its export cprj; the write at position failAt fails
\* (0: none does), the export one when failExport
RECURSIVE GenerateCprjCalls(_, _, _, _, _)
GenerateCprjCalls(processed, export, i, failAt, failExport) ==
  IF i > Len(processed) THEN << >>
  ELSE LET cprjOk == ~(i = failAt /\ ~failExport)
           exportOk == ~(i = failAt /\ failExport)
           cprj == << Call("GenerateCprj", processed[i], cprjOk) >>
           exported == IF cprjOk /\ export # ""
                       THEN << Call("GenerateCprj(export)", processed[i], exportOk) >>
                       ELSE << >>
       IN  IF i = failAt THEN cprj \o exported
           ELSE cprj \o exported
                \o GenerateCprjCalls(processed, export, i + 1, failAt, failExport)

\* a result that forgets what Configure returned
RunConvertResultOfEmission(configureOk, ymlOk, cprjOk) == cprjOk /\ ymlOk

\* the value RunConvert returns: false at the first cprj that is not written,
\* else Success = Configure() & GenerateYMLConfigurationFiles()
RunConvertResult(configureOk, ymlOk, cprjOk) == cprjOk /\ configureOk /\ ymlOk

\* the cprj loop of RunConvert, and its return
GenerateCprj ==
  /\ pc = "GenerateCprj"
  /\ \E failAt \in 0..Len(m_processedContexts),
        failExport \in (IF m_export # "" THEN BOOLEAN ELSE { FALSE }) :
       HandlerReturns(RunConvertResult(ret.configure[1], ret.yml[1], failAt = 0),
                      calls \o GenerateCprjCalls(m_processedContexts, m_export, 1,
                                                 failAt, failExport))
  /\ UNCHANGED << fs_cbuildSet, m_csolutionFile, m_command, m_args, m_context, m_loadPacksPolicy,
                  m_verbose, m_contextSet, m_updateRteFiles, m_updateIdx, m_export,
                  m_frozenPacks, m_codeGenerator, m_allContexts,
                  m_processedContexts, m_failedContext, p_csolution,
                  w_loadPacksPolicy, w_contexts, w_ymlOrderedContexts,
                  w_selectedContexts, w_missingFilters, orderedContexts, idx,
                  error, handler, argLoad >>

(***************************************************************************)
(* The list commands and RunCodeGenerator                                  *)
(***************************************************************************)
\* the worker operation behind each list handler
ListOp(h) ==
  IF h = "RunListPacks" THEN "ListPacks"
  ELSE IF h = "RunListBoards" THEN "ListBoards"
  ELSE IF h = "RunListDevices" THEN "ListDevices"
  ELSE IF h = "RunListComponents" THEN "ListComponents"
  ELSE IF h = "RunListConfigs" THEN "ListConfigs"
  ELSE IF h = "RunListDependencies" THEN "ListDependencies"
  ELSE IF h = "RunListContexts" THEN "ListContexts"
  ELSE IF h = "RunListGenerators" THEN "ListGenerators"
  ELSE "ListToolchains"

\* the handlers that print what the worker listed before they return its result
PrintsResult == { "RunListPacks", "RunListToolchains" }

\* a list handler other than RunListLayers, once the contexts are there:
\* ParseContextSelection (not for the contexts themselves), the list of the
\* worker, and the output
RunList ==
  /\ pc = "RunList"
  /\ \E workerOk \in BOOLEAN, listOk \in BOOLEAN :
       LET selects == handler # "RunListContexts"
           selOk == workerOk /\ SelectionOk(m_context, w_ymlOrderedContexts)
           c1 == IF selects
                 THEN Append(calls, Call("ParseContextSelection", NoName, selOk))
                 ELSE calls
           c2 == Append(c1, Call(ListOp(handler), NoName, listOk))
           c3 == IF listOk \/ handler \in PrintsResult
                 THEN Append(c2, Call("cout", NoName, TRUE)) ELSE c2
       IN  IF selects /\ ~selOk
           THEN /\ HandlerReturns(FALSE, c1)
                /\ UNCHANGED << w_selectedContexts, w_missingFilters >>
           ELSE /\ HandlerReturns(listOk, c3)
                /\ w_selectedContexts' =
                     (IF selects THEN SelectContexts(m_context, w_ymlOrderedContexts)
                      ELSE w_selectedContexts)
                /\ w_missingFilters' =
                     (IF selects THEN MissingFilters(m_context, w_ymlOrderedContexts)
                      ELSE w_missingFilters)
  /\ UNCHANGED << fs_cbuildSet, m_csolutionFile, m_command, m_args, m_context,
                  m_loadPacksPolicy, m_verbose, m_contextSet, m_updateRteFiles,
                  m_updateIdx, m_export, m_frozenPacks, m_codeGenerator,
                  m_allContexts, m_processedContexts, m_failedContext, p_csolution,
                  w_loadPacksPolicy, w_contexts, w_ymlOrderedContexts,
                  orderedContexts, idx, error, handler, argLoad >>

\* a handler that prints the layers whatever the mode
PrintsLayersAlways(updateIdx) == TRUE

\* if (!m_updateIdx): the layers are printed
PrintsLayers(updateIdx) == ~updateIdx

\* a handler that writes the index whatever the mode
UpdatesIndexAlways(updateIdx) == TRUE

\* if (m_updateIdx): the cbuild-idx file is updated
UpdatesIndex(updateIdx) == updateIdx

\* for (auto& contextName : orderedContexts) m_allContexts.push_back(...)
PushAllOrdered(all, ordered) == all \o ordered

\* RunListLayers, once the contexts are there
RunListLayers ==
  /\ pc = "RunListLayers"
  /\ \E workerOk \in BOOLEAN, layersOk \in BOOLEAN, indexOk \in BOOLEAN :
       LET selOk == workerOk /\ SelectionOk(m_context, w_ymlOrderedContexts)
           c1 == Append(calls, Call("ParseContextSelection", NoName, selOk))
           c2 == Append(c1, Call("ListLayers", NoName, layersOk))
           c3 == IF PrintsLayers(m_updateIdx)
                 THEN Append(c2, Call("cout", NoName, TRUE)) ELSE c2
           all == IF UpdatesIndex(m_updateIdx)
                  THEN PushAllOrdered(m_allContexts, w_ymlOrderedContexts)
                  ELSE m_allContexts
           writes == UpdatesIndex(m_updateIdx) /\ all # << >>
           c4 == IF writes
                 THEN Append(c3, Call("GenerateCbuildIndex", NoName, indexOk)) ELSE c3
       IN  IF ~selOk
           THEN /\ HandlerReturns(FALSE, c1)
                /\ UNCHANGED << w_selectedContexts, w_missingFilters, m_allContexts >>
           ELSE /\ w_selectedContexts' = SelectContexts(m_context, w_ymlOrderedContexts)
                /\ w_missingFilters' = MissingFilters(m_context, w_ymlOrderedContexts)
                /\ IF ~layersOk
                   THEN HandlerReturns(FALSE, c2) /\ UNCHANGED m_allContexts
                   ELSE /\ m_allContexts' = all
                        /\ HandlerReturns(~writes \/ indexOk, c4)
  /\ UNCHANGED << fs_cbuildSet, m_csolutionFile, m_command, m_args, m_context,
                  m_loadPacksPolicy, m_verbose, m_contextSet, m_updateRteFiles,
                  m_updateIdx, m_export, m_frozenPacks, m_codeGenerator,
                  m_processedContexts, m_failedContext, p_csolution,
                  w_loadPacksPolicy, w_contexts, w_ymlOrderedContexts,
                  orderedContexts, idx, error, handler, argLoad >>

\* RunListEnvironment: the environment is listed and printed
RunListEnvironment ==
  /\ pc = "RunListEnvironment"
  /\ HandlerReturns(TRUE, calls \o << Call("ListEnvironment", NoName, TRUE),
                                      Call("cout", NoName, TRUE) >>)
  /\ UNCHANGED << fs_cbuildSet, m_csolutionFile, m_command, m_args, m_context,
                  m_loadPacksPolicy, m_verbose, m_contextSet, m_updateRteFiles,
                  m_updateIdx, m_export, m_frozenPacks, m_codeGenerator,
                  m_allContexts, m_processedContexts, m_failedContext, p_csolution,
                  w_loadPacksPolicy, w_contexts, w_ymlOrderedContexts,
                  w_selectedContexts, w_missingFilters, orderedContexts, idx,
                  error, handler, argLoad >>

\* RunCodeGenerator: without a generator identifier it fails at once
RunCodeGenerator ==
  /\ pc = "RunCodeGenerator"
  /\ IF m_codeGenerator = ""
     THEN HandlerReturns(FALSE, calls)
     ELSE pc' = "PopulateContexts" /\ UNCHANGED << ret, calls >>
  /\ UNCHANGED << fs_cbuildSet, m_csolutionFile, m_command, m_args, m_context,
                  m_loadPacksPolicy, m_verbose, m_contextSet, m_updateRteFiles,
                  m_updateIdx, m_export, m_frozenPacks, m_codeGenerator,
                  m_allContexts, m_processedContexts, m_failedContext, p_csolution,
                  w_loadPacksPolicy, w_contexts, w_ymlOrderedContexts,
                  w_selectedContexts, w_missingFilters, orderedContexts, idx,
                  error, handler, argLoad >>

\* RunCodeGenerator, once the contexts are there: ParseContextSelection, then
\* the global or the legacy generator
ExecuteGenerator ==
  /\ pc = "ExecuteGenerator"
  /\ \E workerOk \in BOOLEAN, isGlobal \in BOOLEAN, ok \in BOOLEAN :
       LET selOk == workerOk /\ SelectionOk(m_context, w_ymlOrderedContexts)
           c1 == Append(calls, Call("ParseContextSelection", NoName, selOk))
           c2 == Append(c1, Call(IF isGlobal THEN "ExecuteExtGenerator"
                                 ELSE "ExecuteGenerator", NoName, ok))
       IN  IF ~selOk
           THEN /\ HandlerReturns(FALSE, c1)
                /\ UNCHANGED << w_selectedContexts, w_missingFilters >>
           ELSE /\ HandlerReturns(ok, c2)
                /\ w_selectedContexts' = SelectContexts(m_context, w_ymlOrderedContexts)
                /\ w_missingFilters' = MissingFilters(m_context, w_ymlOrderedContexts)
  /\ UNCHANGED << fs_cbuildSet, m_csolutionFile, m_command, m_args, m_context,
                  m_loadPacksPolicy, m_verbose, m_contextSet, m_updateRteFiles,
                  m_updateIdx, m_export, m_frozenPacks, m_codeGenerator,
                  m_allContexts, m_processedContexts, m_failedContext, p_csolution,
                  w_loadPacksPolicy, w_contexts, w_ymlOrderedContexts,
                  orderedContexts, idx, error, handler, argLoad >>

(***************************************************************************)
(* The program                                                             *)
(***************************************************************************)
\* the steps of the program once the command line is parsed
Run ==
  \/ RunProjMgrReturn
  \/ ProcessCommands
  \/ PopulateContextsParse
  \/ ParseCproject
  \/ StartAddContexts
  \/ AddContexts
  \/ RetrieveAllContextTypes
  \/ ParseContextSelection
  \/ ConfigureLoop
  \/ ConfigureFinish
  \/ RunConfigureReturn
  \/ GenerateYMLConfigurationFiles
  \/ GenerateCprj
  \/ RunList
  \/ RunListLayers
  \/ RunListEnvironment
  \/ RunCodeGenerator
  \/ ExecuteGenerator

Next == ParseCommandLine \/ Run

Spec == Init /\ [][Next]_vars

\* the program is sequential code: once the command line is parsed it takes
\* its next step as long as it has one
FairSpec == Spec /\ WF_vars(Run)

(***************************************************************************)
(* One ProjMgr instance that is called more than once                      *)
(***************************************************************************)
\* RunListLayers is called again as long as the all-contexts list holds at
\* most that many entries
MaxListed == 4

\* the context patterns of the instance
InstanceContexts == { << >>, << Ctx("App", "Debug", "") >> }

\* the commands whose handlers are called on the instance
InstanceCommands ==
  { [command |-> "update-rte", args |-> ""],
    [command |-> "list",       args |-> "layers"] }

\* the instance after construction, with the fields a command line of
\* <csolution> [-c App.Debug] --update-idx sets
InstanceInit ==
  /\ pc = "idle"
  /\ m_csolutionFile = CsolutionFile
  /\ m_command = ""
  /\ m_args = ""
  /\ m_context \in InstanceContexts
  /\ m_loadPacksPolicy = ""
  /\ m_verbose = FALSE
  /\ m_contextSet = FALSE
  /\ m_updateRteFiles = TRUE
  /\ m_updateIdx = TRUE
  /\ m_export = ""
  /\ m_frozenPacks = FALSE
  /\ m_codeGenerator = ""
  /\ m_allContexts = << >>
  /\ m_processedContexts = << >>
  /\ m_failedContext = { }
  /\ p_csolution = NoSolution
  /\ w_loadPacksPolicy = "DEFAULT"
  /\ w_contexts = << >>
  /\ w_ymlOrderedContexts = << >>
  /\ w_selectedContexts = << >>
  /\ w_missingFilters = { }
  /\ orderedContexts = << >>
  /\ idx = 0
  /\ error = FALSE
  /\ handler = ""
  /\ argLoad = << >>
  /\ fs_cbuildSet = "unread"
  /\ ret = NoRet
  /\ calls = << >>

\* the handler of a command is called on the instance, which is idle or has
\* returned from the call before; calls and ret are those of the running call
Invoke ==
  /\ pc \in { "idle", "exit" }
  /\ \E cmd \in InstanceCommands :
       LET h == HandlerOf(cmd.command, cmd.args)
       IN  /\ h = "RunListLayers" => Len(m_allContexts) <= MaxListed
           /\ m_command' = cmd.command
           /\ m_args' = cmd.args
           /\ handler' = h
           /\ pc' = EntryOf(h, m_csolutionFile)
  /\ calls' = << >>
  /\ ret' = NoRet
  /\ orderedContexts' = << >>
  /\ idx' = 0
  /\ error' = FALSE
  /\ UNCHANGED << fs_cbuildSet, m_csolutionFile, m_context, m_loadPacksPolicy,
                  m_verbose, m_contextSet, m_updateRteFiles, m_updateIdx, m_export,
                  m_frozenPacks, m_codeGenerator, m_allContexts,
                  m_processedContexts, m_failedContext, p_csolution,
                  w_loadPacksPolicy, w_contexts, w_ymlOrderedContexts,
                  w_selectedContexts, w_missingFilters, argLoad >>

InstanceNext ==
  \/ Invoke
  \/ PopulateContextsParse
  \/ ParseCproject
  \/ StartAddContexts
  \/ AddContexts
  \/ RetrieveAllContextTypes
  \/ ParseContextSelection
  \/ ConfigureLoop
  \/ ConfigureFinish
  \/ RunConfigureReturn
  \/ RunListLayers

InstanceSpec == InstanceInit /\ [][InstanceNext]_vars

(***************************************************************************)
(* Vocabulary of the properties                                            *)
(***************************************************************************)
CallsOf(op) == { i \in 1..Len(calls) : calls[i].op = op }

\* the contexts ProcessContext was invoked for, and those it failed for
ProcessedNames == { calls[i].arg : i \in CallsOf("ProcessContext") }

FailedNames == { calls[i].arg : i \in { j \in CallsOf("ProcessContext") : ~calls[j].ok } }

SucceededNames == { calls[i].arg : i \in { j \in CallsOf("ProcessContext") : calls[j].ok } }

\* the setup of Configure has succeeded: the run is in, or past, its loop
SetupDone ==
  /\ handler \in ConfigureHandlers
  /\ \E i \in CallsOf("ParseContextSelection") : calls[i].ok

\* Configure has returned
ConfigureReturned == pc \in { "ConfigureDone", "GenerateCprj", "exit" }

\* the loop of Configure is over
LoopDone == SetupDone /\ ConfigureReturned

\* the selected contexts of the run, in the order of the ordered list
SelectedNames == { c \in Range(orderedContexts) : IsContextSelected(w_selectedContexts, c) }

\* the status of a context in the run
Status(c) ==
  IF c \notin Range(m_processedContexts) THEN "Pending"
  ELSE IF w_contexts[c].name \in m_failedContext THEN "Failed"
  ELSE "Succeeded"

\* the expanded context universe of the parsed solution
RECURSIVE UniverseOf(_, _)
UniverseOf(sol, n) ==
  IF n = 0 THEN { }
  ELSE UniverseOf(sol, n - 1)
       \cup Range(ExpandContexts(sol.cprojects[n].project, sol.buildTypes, sol.targetTypes))

Universe == UniverseOf(p_csolution, Len(p_csolution.cprojects))

\* s is t with some elements left out
RECURSIVE IsSubsequence(_, _)
IsSubsequence(s, t) ==
  IF s = << >> THEN TRUE
  ELSE IF t = << >> THEN FALSE
  ELSE IF Head(s) = Head(t) THEN IsSubsequence(Tail(s), Tail(t))
  ELSE IsSubsequence(s, Tail(t))

(***************************************************************************)
(* C1 - failure isolation                                                  *)
(***************************************************************************)
\* C1: once the setup of Configure has succeeded, a failed ProcessContext never
\* stops the loop: a context whose ProcessContext returned true is never in the
\* failure set, and from every point of the loop the run reaches its end with
\* every selected context processed and either succeeded or failed.
C1_FailureIsolation ==
  /\ [](SucceededNames \cap m_failedContext = { })
  /\ (pc = "ConfigureLoop")
       ~> (/\ pc = "ConfigureDone"
           /\ \A c \in SelectedNames :
                c \in ProcessedNames /\ Status(c) \in { "Succeeded", "Failed" })

\* a context failed and a selected context after it was processed and succeeded
C1_Witness ==
  /\ pc = "ConfigureDone"
  /\ \E i, j \in CallsOf("ProcessContext") :
       i < j /\ ~calls[i].ok /\ calls[j].ok /\ Status(calls[j].arg) = "Succeeded"

(***************************************************************************)
(* C2 - exit status of Configure                                           *)
(***************************************************************************)
\* C2: Configure returns true only if every selected context was processed
\* and succeeded; if a selected context failed it returns false, and the
\* failure set names exactly the contexts that failed.
C2_ExitStatus ==
  (ConfigureReturned /\ ret.configure # << >>) =>
    /\ ret.configure = << TRUE >> =>
         /\ SetupDone
         /\ \A c \in SelectedNames : c \in SucceededNames /\ c \notin FailedNames
    /\ FailedNames # { } =>
         /\ ret.configure = << FALSE >>
         /\ m_failedContext = FailedNames

\* a run that returned false with a failed context that was followed by a
\* context that succeeded
C2_Witness ==
  /\ pc = "ConfigureDone"
  /\ ret.configure = << FALSE >>
  /\ \E i, j \in CallsOf("ProcessContext") : i < j /\ ~calls[i].ok /\ calls[j].ok

(***************************************************************************)
(* C3 - the collections after the loop                                     *)
(***************************************************************************)
\* C3: after the loop the processed list holds every selected context, the
\* failed ones included, and the failure set is exactly the set of names of
\* the contexts for which ProcessContext returned false.
C3_CollectionsAfterLoop ==
  LoopDone =>
    /\ Range(m_processedContexts) = SelectedNames
    /\ FailedNames \subseteq Range(m_processedContexts)
    /\ m_failedContext = FailedNames
    /\ m_failedContext \cap SucceededNames = { }

\* the loop is over with a failed and a succeeded context in the processed list
C3_Witness ==
  /\ LoopDone
  /\ \E c, d \in Range(m_processedContexts) :
       c \in m_failedContext /\ d \notin m_failedContext

(***************************************************************************)
(* C4 - declaration order                                                  *)
(***************************************************************************)
ScenarioProcessed ==
  << Ctx("App", "Debug", "BoardA"), Ctx("App", "Debug", "BoardB") >>

\* C4: at every point of the run the processed list is a subsequence of the
\* ordered context list of the solution, whatever the order of the patterns
\* and whichever contexts fail; for the universe App.Debug+BoardA,
\* App.Debug+BoardB, App.Release+BoardA, App.Release+BoardB and the pattern
\* App.Debug the processed list is the first two contexts, in that order.
C4_DeclarationOrder ==
  /\ IsSubsequence(m_processedContexts, w_ymlOrderedContexts)
  /\ (LoopDone /\ p_csolution = SolutionApp /\ m_context = << Ctx("App", "Debug", "") >>)
       => m_processedContexts = ScenarioProcessed

\* two patterns given against the declaration order, both processed, one failed
C4_Witness ==
  /\ LoopDone
  /\ p_csolution = SolutionApp
  /\ m_context = << Ctx("App", "Release", "BoardA"), Ctx("App", "Debug", "") >>
  /\ Len(m_processedContexts) = 3
  /\ m_failedContext # { }

\* the scenario of the design document
C4_ScenarioReached ==
  LoopDone /\ p_csolution = SolutionApp /\ m_context = << Ctx("App", "Debug", "") >>

(***************************************************************************)
(* C5 - one ProcessContext per selected context                            *)
(***************************************************************************)
\* C5: in a run ProcessContext is invoked at most once per context, only for
\* selected contexts, and exactly once for each selected context when the loop
\* is over; the status a context has got (succeeded or failed) never changes.
C5_ProcessedOnce ==
  /\ [](/\ \A i, j \in CallsOf("ProcessContext") : calls[i].arg = calls[j].arg => i = j
        /\ ProcessedNames \subseteq SelectedNames
        /\ LoopDone => ProcessedNames = SelectedNames)
  /\ [][\A c \in Range(orderedContexts) :
          Status(c) # "Pending" => Status(c)' = Status(c)]_vars

\* the loop is over; a context was left out, one failed and one succeeded
C5_Witness ==
  /\ LoopDone
  /\ Range(orderedContexts) \ SelectedNames # { }
  /\ FailedNames # { }
  /\ SucceededNames # { }

(***************************************************************************)
(* C6 - the items are contexts of the universe                             *)
(***************************************************************************)
\* C6: every item in the all-contexts list, in the processed list and every
\* name in the failure set is a context of the expanded universe of the
\* solution, and the worker's map holds no item outside it.
C6_ItemsInUniverse ==
  /\ \A key \in Range(m_allContexts) \cup Range(m_processedContexts) :
       key \in Universe /\ w_contexts[key].name \in Universe
  /\ m_failedContext \subseteq Universe
  /\ DOMAIN w_contexts \subseteq Universe

\* the loop is over with a context left out and a context that failed
C6_Witness ==
  /\ LoopDone
  /\ Len(m_allContexts) > Len(m_processedContexts)
  /\ m_failedContext # { }

(***************************************************************************)
(* C7 - errors of the whole run                                            *)
(***************************************************************************)
SetupOps ==
  { "ParseCsolution", "ParseCdefault", "ParseCproject", "AddContexts",
    "ParseContextSelection" }

\* a step of the setup has failed
SetupFailed ==
  /\ handler \in ConfigureHandlers
  /\ pc # "PopulateContexts"
  /\ \/ m_csolutionFile = ""
     \/ \E i \in 1..Len(calls) : calls[i].op \in SetupOps /\ ~calls[i].ok

\* C7: when no solution is given, or its parse or the context selection
\* fails, Configure returns false and ProcessContext was invoked for no context.
C7_AbortBeforeProcessing ==
  SetupFailed =>
    /\ ret.configure = << FALSE >>
    /\ CallsOf("ProcessContext") = { }
    /\ m_processedContexts = << >>

\* the context selection failed after the contexts were populated
C7_Witness ==
  /\ SetupFailed
  /\ w_ymlOrderedContexts # << >>
  /\ \E i \in CallsOf("ParseContextSelection") : ~calls[i].ok

(***************************************************************************)
(* C8 - the missing filters are printed once, at the end                   *)
(***************************************************************************)
\* C8: PrintMissingFilters is called at most once in a run, only after
\* ProcessContext was invoked for every selected context, and no ProcessContext
\* follows it; a run that reached the loop has called it exactly once when
\* Configure returns, whether or not a context failed.
C8_MissingFiltersOnce ==
  /\ Cardinality(CallsOf("PrintMissingFilters")) <= 1
  /\ \A i \in CallsOf("PrintMissingFilters") :
       /\ \A j \in CallsOf("ProcessContext") : j < i
       /\ ProcessedNames = SelectedNames
  /\ LoopDone => Cardinality(CallsOf("PrintMissingFilters")) = 1

\* the filters were printed in a run in which a context failed
C8_Witness ==
  /\ LoopDone
  /\ FailedNames # { }
  /\ w_missingFilters # { }
  /\ CallsOf("PrintMissingFilters") # { }

(***************************************************************************)
(* C9 - missing filters and the verbose listing do not fail a run          *)
(***************************************************************************)
\* C9: once the setup has succeeded the result of Configure is decided by the
\* results of ProcessContext alone: it is true exactly when no ProcessContext
\* returned false, also with missing filters and with the verbose listing.
C9_ResultFromOutcomesOnly ==
  LoopDone => (ret.configure = << TRUE >> <=> FailedNames = { })

\* a verbose run with a missing filter in which every context succeeded
C9_Witness ==
  /\ LoopDone
  /\ m_verbose
  /\ w_missingFilters # { }
  /\ CallsOf("ListConfigFiles") # { }
  /\ SucceededNames # { }
  /\ ret.configure = << TRUE >>

(***************************************************************************)
(* C10 - the load-packs policy                                             *)
(***************************************************************************)
ValidLoadOptions == { << >>, << "latest" >>, << "all" >>, << "required" >> }

ExpectedPolicy ==
  IF argLoad = << "latest" >> THEN "LATEST"
  ELSE IF argLoad = << "all" >> THEN "ALL"
  ELSE IF argLoad = << "required" >> THEN "REQUIRED"
  ELSE "DEFAULT"

\* a ParseCommandLine that returned SUCCESS has set the policy once, to the
\* policy of the --load option
PolicySetOnce ==
  ret.parse = << SUCCESS >> =>
    /\ Cardinality(CallsOf("SetLoadPacksPolicy")) = 1
    /\ w_loadPacksPolicy = ExpectedPolicy
    /\ w_loadPacksPolicy \in LoadPacksPolicies

\* C10 as stated: a successful ParseCommandLine has set the policy exactly
\* once, to DEFAULT without --load, LATEST, ALL or REQUIRED for its three
\* values; any other value of --load sets no policy and makes
\* ParseCommandLine return ERROR.
C10_AsStated ==
  pc # "start" =>
    /\ PolicySetOnce
    /\ argLoad \notin ValidLoadOptions =>
         /\ CallsOf("SetLoadPacksPolicy") = { }
         /\ ret.parse = << ERROR >>

\* C10, amended: a successful ParseCommandLine has set the policy exactly
\* once, to DEFAULT when --load is absent or empty, LATEST, ALL or REQUIRED
\* for 'latest', 'all', 'required'; any other non-empty value sets no policy
\* and ParseCommandLine returns ERROR, or -1 when it printed the version or
\* the usage text first; it never returns SUCCESS.
C10_LoadPacksPolicy ==
  pc # "start" =>
    /\ PolicySetOnce
    /\ argLoad \notin (ValidLoadOptions \cup { << "" >> }) =>
         /\ CallsOf("SetLoadPacksPolicy") = { }
         /\ w_loadPacksPolicy = "DEFAULT"
         /\ \/ ret.parse = << ERROR >>
            \/ /\ ret.parse = << HELP_REQUESTED >>
               /\ CallsOf("PrintUsage") \cup CallsOf("ShowVersion") # { }

\* a command line with an unknown --load value that got as far as the policy
C10_Witness ==
  /\ pc = "parsed"
  /\ argLoad = << "default" >>
  /\ m_loadPacksPolicy = "default"
  /\ m_command = "update-rte"
  /\ CallsOf("PrintUsage") = { }
  /\ ret.parse = << ERROR >>

(***************************************************************************)
(* Vocabulary of the emission                                              *)
(***************************************************************************)
\* GenerateYMLConfigurationFiles has returned to RunConvert
YmlDone == handler = "RunConvert" /\ pc \in { "GenerateCprj", "exit" }

\* the calls of GenerateCbuild, with the error flag and without
CbuildCalls == CallsOf("GenerateCbuild") \cup CallsOf("GenerateCbuild(convError)")

PackOk == \E i \in CallsOf("GenerateCbuildPack") : calls[i].ok

IndexOk == \A i \in CallsOf("GenerateCbuildIndex") : calls[i].ok

\* the emission got as far as its cbuild-set step
SetStepReached == YmlDone /\ PackOk /\ IndexOk

SetGenerated == CallsOf("GenerateCbuildSet") # { }

SetWarned == CallsOf("Warn(cbuild-set)") # { }

\* no pattern was given and the cbuild-set file is not there
SetMissing == Len(m_context) = 0 /\ fs_cbuildSet = "absent"

\* the condition under which the cbuild-set file is to be generated
SetWanted == m_contextSet /\ m_processedContexts # << >> /\ ~SetMissing

(***************************************************************************)
(* C11 - the cbuild-set file                                               *)
(***************************************************************************)
\* C11 as stated: with a context set requested, no pattern and no cbuild-set
\* file the emission warns and generates no cbuild-set file; a cbuild-set
\* file is generated exactly when context-set mode is on, the processed list
\* is not empty, and not both no pattern was given and the file is absent.
C11_AsStated ==
  (YmlDone /\ (Len(m_context) > 0 \/ fs_cbuildSet # "unread")) =>
    /\ (m_contextSet /\ SetMissing) => ~SetGenerated
    /\ SetGenerated <=> SetWanted

\* C11, amended: a cbuild-set file is generated only when context-set mode is
\* on, the processed list is not empty and not both no pattern was given and
\* the file is absent, and it is generated whenever this holds and the
\* cbuild-pack and cbuild-index steps before it have succeeded.  With a
\* context set requested, no pattern and no file, the selection falls back
\* to every context, and the emission, when it gets to the step, warns,
\* generates no cbuild-set file and goes on with the cbuild files: it fails
\* only if a cbuild does.
C11_CbuildSet ==
  /\ (LoopDone /\ m_contextSet /\ SetMissing)
       => SelectedNames = Range(orderedContexts)
  /\ YmlDone =>
       /\ SetGenerated => (SetWanted /\ SetStepReached)
       /\ SetStepReached => (SetGenerated <=> SetWanted)
       /\ SetWarned <=> (SetStepReached /\ m_contextSet /\ SetMissing)
       /\ SetWarned =>
            /\ ~SetGenerated
            /\ Cardinality(CallsOf("Warn(cbuild-set)")) = 1
            /\ m_processedContexts # << >> => CbuildCalls # { }
            /\ ret.yml = << \A i \in CbuildCalls : calls[i].ok >>

\* a context set without pattern and without file: every context was
\* processed, the emission warned and succeeded
C11_Witness ==
  /\ YmlDone
  /\ m_contextSet
  /\ SetMissing
  /\ SetWarned
  /\ Len(m_processedContexts) = Len(orderedContexts)
  /\ Len(m_processedContexts) > 1
  /\ ret.yml = << TRUE >>

(***************************************************************************)
(* C12 - list layers: print or update the index                            *)
(***************************************************************************)
\* RunListLayers has returned
LayersDone == handler = "RunListLayers" /\ pc = "exit"

\* the worker has listed the layers
LayersListed == \E i \in CallsOf("ListLayers") : calls[i].ok

LayersPrinted == CallsOf("cout") # { }

IndexWritten == CallsOf("GenerateCbuildIndex") # { }

\* C12 as stated: in RunListLayers the layer list is printed if and only if
\* update-idx is off, and GenerateCbuildIndex is invoked only when update-idx
\* is on and the context list is not empty, never in the printing mode.
C12_AsStated ==
  LayersDone =>
    /\ LayersPrinted <=> ~m_updateIdx
    /\ IndexWritten => (m_updateIdx /\ m_allContexts # << >> /\ ~LayersPrinted)

\* C12, amended: in a RunListLayers whose context selection and ListLayers
\* succeeded the layer list is printed if and only if update-idx is off, and
\* GenerateCbuildIndex is invoked, once, if and only if update-idx is on and
\* the context list is not empty, never in the printing mode; when the
\* selection or ListLayers fails, RunListLayers returns false and has neither
\* printed the layers nor invoked GenerateCbuildIndex.
C12_ListLayers ==
  LayersDone =>
    /\ LayersListed => (LayersPrinted <=> ~m_updateIdx)
    /\ LayersListed => (IndexWritten <=> (m_updateIdx /\ m_allContexts # << >>))
    /\ IndexWritten => ~LayersPrinted
    /\ Cardinality(CallsOf("GenerateCbuildIndex")) <= 1
    /\ ~LayersListed =>
         /\ ~LayersPrinted
         /\ ~IndexWritten
         /\ \E i \in CallsOf("RunListLayers") : ~calls[i].ok

\* update-idx mode: the contexts of the solution went into the index, nothing
\* was printed
C12_Witness ==
  /\ LayersDone
  /\ m_updateIdx
  /\ LayersListed
  /\ IndexWritten
  /\ Len(m_allContexts) > 1
  /\ ~LayersPrinted

(***************************************************************************)
(* C13 - determinism of Configure                                          *)
(***************************************************************************)
\* the contexts the loop of Configure has been through
Visited ==
  IF pc = "ConfigureLoop" THEN SubSeq(orderedContexts, 1, idx - 1)
  ELSE orderedContexts

\* the answer of ProcessContext for the context, as recorded
Answered(c) == \A i \in CallsOf("ProcessContext") : calls[i].arg = c => calls[i].ok

\* C13: the result of Configure is a function of its inputs and of the
\* answers of its collaborators, so two runs with the same inputs and answers
\* end alike: the all-contexts list is the ordered list of the worker, the
\* processed list its selected contexts in that order, the failure set the
\* processed contexts ProcessContext answered false for, and the return value
\* is true exactly when no answer was false; a Configure whose setup fails
\* returns false.
C13_Determinism ==
  /\ SetupDone =>
       /\ m_allContexts = Visited
       /\ m_processedContexts = Restrict(Visited, SelectedNames)
       /\ m_failedContext = { c \in Range(m_processedContexts) : ~Answered(c) }
       /\ ConfigureReturned =>
            ret.configure = << \A i \in CallsOf("ProcessContext") : calls[i].ok >>
  /\ (handler \in ConfigureHandlers /\ ConfigureReturned /\ ~SetupDone)
       => ret.configure = << FALSE >>

\* Configure has returned after a loop that left a context out, processed
\* two and got one false answer
C13_Witness ==
  /\ LoopDone
  /\ Len(m_allContexts) > Len(m_processedContexts)
  /\ Len(m_processedContexts) = 2
  /\ Cardinality(m_failedContext) = 1
  /\ ret.configure = << FALSE >>

(***************************************************************************)
(* C14 - frozen packs                                                      *)
(***************************************************************************)
\* a convert with --frozen-packs has ended, the contexts were processed and
\* the emitter has refused the cbuild-pack file: the packs differ from the
\* frozen ones
FrozenDrift ==
  /\ handler = "RunConvert"
  /\ pc = "exit"
  /\ m_frozenPacks
  /\ LoopDone
  /\ \E i \in CallsOf("GenerateCbuildPack") : ~calls[i].ok

\* the processed contexts no cbuild file was generated for
WithoutCbuild ==
  { c \in Range(m_processedContexts) : \A i \in CbuildCalls : calls[i].arg # c }

\* C14 as stated: with frozen packs a divergence of the pack versions is an
\* error for the affected context only: the other contexts are still
\* processed and their build files are still emitted in the same run, the
\* cbuild index, a cbuild for each of them, and, when no cprj write fails, a
\* cprj for each of them.
C14_AsStated ==
  FrozenDrift =>
    /\ Range(m_processedContexts) = SelectedNames
    /\ m_allContexts # << >> => IndexWritten
    /\ Cardinality(WithoutCbuild) <= 1
    /\ (\A i \in CallsOf("GenerateCprj") : calls[i].ok)
         => { calls[i].arg : i \in CallsOf("GenerateCprj") } = Range(m_processedContexts)

\* what the code does: the refused cbuild-pack file ends the emission for
\* every context, the run fails, and only the cprj files are still written
C14_DriftEndsEmission ==
  FrozenDrift =>
    /\ ~IndexWritten
    /\ CbuildCalls = { }
    /\ ~SetGenerated
    /\ ret.yml = << FALSE >>
    /\ ret.exit = << ERROR >>

\* two contexts were processed and succeeded, and the cbuild-pack was refused
C14_Witness ==
  /\ FrozenDrift
  /\ Len(m_processedContexts) = 2
  /\ m_failedContext = { }
  /\ ret.configure = << TRUE >>

(***************************************************************************)
(* C15 - one cbuild per processed context                                  *)
(***************************************************************************)
IsCbuild(call) == call.op \in { "GenerateCbuild", "GenerateCbuild(convError)" }

\* the calls of GenerateCbuild, in the order they were made
CbuildSeq == SelectSeq(calls, IsCbuild)

\* the contexts handed to GenerateCbuild, in that order
CbuildArgs == [ i \in 1..Len(CbuildSeq) |-> CbuildSeq[i].arg ]

\* every GenerateCbuild got the error flag of its context
FlagsRight ==
  \A i \in 1..Len(CbuildSeq) :
    (CbuildSeq[i].op = "GenerateCbuild(convError)") <=> (CbuildSeq[i].arg \in m_failedContext)

SetOk == \A i \in CallsOf("GenerateCbuildSet") : calls[i].ok

\* C15 as stated: in GenerateYMLConfigurationFiles GenerateCbuild is invoked
\* once for each processed context, in processed order, with the error flag
\* true if and only if the name of the context is in the failure set; no
\* context that was not processed is passed to it.
C15_AsStated ==
  YmlDone => (CbuildArgs = m_processedContexts /\ FlagsRight)

\* C15, amended: GenerateCbuild is invoked for the processed contexts only,
\* at most once each, in processed order and with the error flag true if and
\* only if the name of the context is in the failure set; it is invoked for
\* every processed context when the cbuild-pack, cbuild-index and cbuild-set
\* steps and every GenerateCbuild before the last context succeeded, for none
\* when one of these three steps failed, and for no context after the first
\* GenerateCbuild that fails.
C15_CbuildPerContext ==
  YmlDone =>
    /\ FlagsRight
    /\ Len(CbuildArgs) <= Len(m_processedContexts)
    /\ CbuildArgs = SubSeq(m_processedContexts, 1, Len(CbuildArgs))
    /\ \A k \in 1..(Len(CbuildSeq) - 1) : CbuildSeq[k].ok
    /\ IF PackOk /\ IndexOk /\ SetOk
       THEN \/ CbuildArgs = m_processedContexts
            \/ ~CbuildSeq[Len(CbuildSeq)].ok
       ELSE CbuildArgs = << >>
    /\ ret.yml = << TRUE >> => CbuildArgs = m_processedContexts

\* the emission succeeded for two processed contexts, the first of them failed
\* in Configure: its cbuild got the error flag, the other did not
C15_Witness ==
  /\ YmlDone
  /\ ret.yml = << TRUE >>
  /\ Len(m_processedContexts) = 2
  /\ Len(m_allContexts) > 2
  /\ m_failedContext = { m_processedContexts[1] }
  /\ Len(CbuildSeq) = 2
  /\ CbuildSeq[1].op = "GenerateCbuild(convError)"
  /\ CbuildSeq[2].op = "GenerateCbuild"

(***************************************************************************)
(* C16 - --no-update-rte                                                   *)
(***************************************************************************)
\* the contexts UpdateRte was called on
UpdateRteArgs == { calls[i].arg : i \in CallsOf("UpdateRte") }

\* the processed contexts that have an active RTE project
WithRteProject ==
  { c \in Range(m_processedContexts) : w_contexts[c].rteActiveProject }

\* C16: with --no-update-rte (m_updateRteFiles false) UpdateRte is called on
\* no context, in update-rte and in convert; without it UpdateRte is called
\* only on processed contexts that have an active RTE project, never on a
\* context that was not selected, and at most once on each; an update-rte and
\* a convert whose cbuild-pack step succeeded call it on each of them.
C16_NoUpdateRte ==
  /\ ~m_updateRteFiles => CallsOf("UpdateRte") = { }
  /\ UpdateRteArgs \subseteq WithRteProject
  /\ UpdateRteArgs \subseteq SelectedNames
  /\ \A i, j \in CallsOf("UpdateRte") : calls[i].arg = calls[j].arg => i = j
  /\ (m_updateRteFiles /\ pc = "exit" /\ handler = "RunConfigure")
       => UpdateRteArgs = WithRteProject
  /\ (m_updateRteFiles /\ YmlDone /\ PackOk) => UpdateRteArgs = WithRteProject

\* a convert with --no-update-rte: the emission went past updateRte with a
\* processed context that has an active RTE project, and UpdateRte was not called
C16_Witness ==
  /\ YmlDone
  /\ ~m_updateRteFiles
  /\ PackOk
  /\ WithRteProject # { }
  /\ CallsOf("UpdateRte") = { }

(***************************************************************************)
(* C17 - RunConvert                                                        *)
(***************************************************************************)
\* RunConvert has returned
ConvertDone == handler = "RunConvert" /\ pc = "exit"

IsCprj(call) == call.op \in { "GenerateCprj", "GenerateCprj(export)" }

\* the cprj writes, export ones included, in the order they were made
CprjSeq == SelectSeq(calls, IsCprj)

IsPlainCprj(call) == call.op = "GenerateCprj"

\* the contexts a cprj was written for, in that order
CprjArgs ==
  LET plain == SelectSeq(calls, IsPlainCprj)
  IN  [ i \in 1..Len(plain) |-> plain[i].arg ]

CprjsOk == \A i \in 1..Len(CprjSeq) : CprjSeq[i].ok

\* the value RunConvert returned
ConvertResult == { calls[i].ok : i \in CallsOf("RunConvert") }

\* C17: whatever Configure returned, RunConvert runs the emission step and
\* then the cprj generation over the processed contexts, failed ones
\* included, in processed order; the first cprj or export cprj write that
\* fails is the last one, RunConvert returns false at once; when no write
\* fails a cprj is written for every processed context, with its export cprj
\* when --export is given, and RunConvert returns true exactly when Configure
\* and GenerateYMLConfigurationFiles returned true.
C17_RunConvert ==
  ConvertDone =>
    /\ Cardinality(CallsOf("GenerateCbuildPack")) = 1
    /\ ret.yml # << >>
    /\ CprjArgs = SubSeq(m_processedContexts, 1, Len(CprjArgs))
    /\ \A k \in 1..(Len(CprjSeq) - 1) : CprjSeq[k].ok
    /\ CprjsOk => CprjArgs = m_processedContexts
    /\ \A k \in 1..Len(CprjSeq) :
         CprjSeq[k].op = "GenerateCprj(export)"
           => (m_export # "" /\ k > 1 /\ CprjSeq[k - 1].op = "GenerateCprj"
               /\ CprjSeq[k - 1].arg = CprjSeq[k].arg)
    /\ (m_export # "" /\ CprjsOk) => Len(CprjSeq) = 2 * Len(m_processedContexts)
    /\ ConvertResult =
         { CprjsOk /\ ret.configure = << TRUE >> /\ ret.yml = << TRUE >> }
    /\ ret.exit # << SUCCESS >> \/ ConvertResult = { TRUE }

\* Configure failed on the first of two processed contexts; the emission and
\* both cprj writes succeeded, and RunConvert returned false
C17_Witness ==
  /\ ConvertDone
  /\ ret.configure = << FALSE >>
  /\ ret.yml = << TRUE >>
  /\ Len(m_processedContexts) = 2
  /\ m_processedContexts[1] \in m_failedContext
  /\ CprjArgs = m_processedContexts
  /\ CprjsOk
  /\ ConvertResult = { FALSE }

\* the export cprj of the first of two processed contexts was not written:
\* no cprj for the second
C17_FailFastReached ==
  /\ ConvertDone
  /\ Len(m_processedContexts) = 2
  /\ Len(CprjSeq) = 2
  /\ ~CprjSeq[2].ok
  /\ CprjSeq[2].op = "GenerateCprj(export)"

(***************************************************************************)
(* C18 - the order of the emission                                         *)
(***************************************************************************)
\* the place of an operation in the emission; 0 for any other operation
Rank(op) ==
  IF op = "GenerateCbuildPack" THEN 1
  ELSE IF op = "UpdateRte" THEN 2
  ELSE IF op = "GenerateCbuildIndex" THEN 3
  ELSE IF op \in { "GenerateCbuildSet", "Warn(cbuild-set)" } THEN 4
  ELSE IF op \in { "GenerateCbuild", "GenerateCbuild(convError)" } THEN 5
  ELSE 0

IsEmission(call) == Rank(call.op) > 0

\* the calls of the emission, in the order they were made
EmissionSeq == SelectSeq(calls, IsEmission)

\* C18: GenerateYMLConfigurationFiles makes its calls in the order
\* cbuild-pack, RTE update, cbuild-index, cbuild-set, cbuilds; the cbuild-pack
\* comes first and once, the cbuild-index once and only for an all-contexts
\* list that is not empty; it returns false exactly when a call of the
\* emitter failed, and that call is its last one: after a cbuild-pack that
\* failed there is no RTE update, no index, no set and no cbuild.
C18_EmissionOrder ==
  YmlDone =>
    /\ Len(EmissionSeq) >= 1
    /\ EmissionSeq[1].op = "GenerateCbuildPack"
    /\ \A j, k \in 1..Len(EmissionSeq) :
         j < k => Rank(EmissionSeq[j].op) <= Rank(EmissionSeq[k].op)
    /\ Cardinality(CallsOf("GenerateCbuildPack")) = 1
    /\ Cardinality(CallsOf("GenerateCbuildIndex")) <= 1
    /\ IndexWritten <=> (PackOk /\ m_allContexts # << >>)
    /\ \A k \in 1..(Len(EmissionSeq) - 1) : EmissionSeq[k].ok
    /\ ret.yml = << EmissionSeq[Len(EmissionSeq)].ok >>
    /\ ~PackOk => (Len(EmissionSeq) = 1 /\ ret.yml = << FALSE >>)
    /\ ret.yml = << TRUE >> =>
         /\ UpdateRteArgs = (IF m_updateRteFiles THEN WithRteProject ELSE { })
         /\ CbuildArgs = m_processedContexts

\* an emission that went through all of its steps: RTE update, index, set and
\* two cbuilds
C18_Witness ==
  /\ YmlDone
  /\ ret.yml = << TRUE >>
  /\ CallsOf("UpdateRte") # { }
  /\ IndexWritten
  /\ SetGenerated
  /\ Len(CbuildSeq) = 2

\* the cbuild-pack failed in a run that had RTE files to update, an index and
\* cbuilds to write
C18_PackFailureReached ==
  /\ YmlDone
  /\ ~PackOk
  /\ m_updateRteFiles
  /\ WithRteProject # { }
  /\ m_allContexts # << >>
  /\ m_contextSet
  /\ Len(EmissionSeq) = 1

(***************************************************************************)
(* C19 - ProcessCommands                                                   *)
(***************************************************************************)
HandlerNames ==
  { "RunListPacks", "RunListBoards", "RunListDevices", "RunListComponents",
    "RunListConfigs", "RunListDependencies", "RunListContexts",
    "RunListGenerators", "RunListLayers", "RunListToolchains",
    "RunListEnvironment", "RunConfigure", "RunConvert", "RunCodeGenerator" }

\* the handlers that have returned
HandlerCalls == { i \in 1..Len(calls) : calls[i].op \in HandlerNames }

\* the command, and for list its argument, is one ProcessCommands knows
Recognised ==
  \/ m_command \in { "update-rte", "convert", "run" }
  \/ m_command = "list" /\ m_args \in ListArgs

\* ProcessCommands was called and has returned
ProcessCommandsDone ==
  /\ pc = "exit"
  /\ \E i \in CallsOf("InitializeModel") : calls[i].ok

\* the worker reported a variable that is not defined
VarDefineError == \E i \in CallsOf("HasVarDefineError") : calls[i].ok

\* C19: ProcessCommands invokes at most one handler; for an unknown command,
\* for list without argument or with an unknown one it invokes none and
\* returns ERROR; otherwise it invokes the handler of the command and returns
\* SUCCESS if and only if the handler returned true, except that list
\* environment returns SUCCESS whatever the handler returns, and that convert
\* returns VARIABLE_NOT_DEFINED when RunConvert returned true and the worker
\* reports a variable definition error, about which it is asked in no other
\* case.
C19_ProcessCommands ==
  /\ Cardinality(HandlerCalls) <= 1
  /\ \A i \in HandlerCalls : calls[i].op = handler
  /\ CallsOf("HasVarDefineError") # { } => \E i \in CallsOf("RunConvert") : calls[i].ok
  /\ \A ok \in BOOLEAN, v \in BOOLEAN :
       CommandResult("list", "environment", ok, v) = SUCCESS
  /\ ProcessCommandsDone =>
       IF ~Recognised
       THEN HandlerCalls = { } /\ handler = "" /\ ret.exit = << ERROR >>
       ELSE /\ Cardinality(HandlerCalls) = 1
            /\ handler = HandlerOf(m_command, m_args)
            /\ \A i \in HandlerCalls :
                 IF handler = "RunListEnvironment" THEN ret.exit = << SUCCESS >>
                 ELSE IF handler = "RunConvert" /\ calls[i].ok /\ VarDefineError
                   THEN ret.exit = << VARIABLE_NOT_DEFINED >>
                 ELSE (ret.exit = << SUCCESS >> <=> calls[i].ok)
                      /\ (ret.exit = << ERROR >> <=> ~calls[i].ok)

\* a convert that succeeded with a variable that is not defined
C19_Witness ==
  /\ ProcessCommandsDone
  /\ handler = "RunConvert"
  /\ \E i \in CallsOf("RunConvert") : calls[i].ok
  /\ VarDefineError
  /\ ret.exit = << VARIABLE_NOT_DEFINED >>

\* list with an argument that is not known: no handler
C19_UnknownReached ==
  /\ ProcessCommandsDone
  /\ m_command = "list"
  /\ m_args = "frobnicate"
  /\ ret.exit = << ERROR >>

(***************************************************************************)
(* C20 - the exit code of RunProjMgr                                       *)
(***************************************************************************)
\* C20: when ParseCommandLine returns -1, after the version or the usage text
\* was printed, the program returns SUCCESS; a positive result is returned
\* unchanged; in both cases the model is not initialised and no command is
\* processed.  Only when ParseCommandLine returns 0 is InitializeModel
\* called, once; when it fails the program returns ERROR and no handler runs.
C20_ExitMapping ==
  /\ CallsOf("InitializeModel") # { } => ret.parse = << 0 >>
  /\ Cardinality(CallsOf("InitializeModel")) <= 1
  /\ (handler # "" \/ HandlerCalls # { })
       => \E i \in CallsOf("InitializeModel") : calls[i].ok
  /\ ret.parse = << HELP_REQUESTED >>
       => CallsOf("ShowVersion") \cup CallsOf("PrintUsage") # { }
  /\ pc = "exit" =>
       /\ ret.parse = << HELP_REQUESTED >> => ret.exit = << SUCCESS >>
       /\ ret.parse[1] > 0 => ret.exit = ret.parse
       /\ ret.parse # << 0 >> =>
            /\ CallsOf("InitializeModel") = { }
            /\ handler = ""
            /\ CallsOf("ParseCsolution") = { }
       /\ ret.parse = << 0 >> =>
            /\ Cardinality(CallsOf("InitializeModel")) = 1
            /\ (\E i \in CallsOf("InitializeModel") : ~calls[i].ok)
                 => (ret.exit = << ERROR >> /\ handler = "" /\ HandlerCalls = { })

\* help was asked for a command: the program ends with SUCCESS
C20_Witness ==
  /\ pc = "exit"
  /\ ret.parse = << HELP_REQUESTED >>
  /\ m_command = "convert"
  /\ CallsOf("PrintUsage") # { }
  /\ ret.exit = << SUCCESS >>

\* the model could not be initialised
C20_InitFailedReached ==
  /\ pc = "exit"
  /\ ret.parse = << 0 >>
  /\ m_command = "convert"
  /\ \E i \in CallsOf("InitializeModel") : ~calls[i].ok
  /\ ret.exit = << ERROR >>

(***************************************************************************)
(* C21 - the cproject file names of a solution are unique                  *)
(***************************************************************************)
\* the parsed solution lists more than one cproject, two with one file name
DuplicateNames ==
  /\ Len(p_csolution.cprojects) > 1
  /\ HasDuplicate(FileNames(p_csolution.cprojects))

\* the parsed solution lists more than one cproject, two in one directory
SharedDirs ==
  /\ Len(p_csolution.cprojects) > 1
  /\ HasDuplicate(DirNames(p_csolution.cprojects))

\* the run came to the check of the cprojects: csolution and cdefault parsed
CprojectsChecked ==
  /\ \E i \in CallsOf("ParseCsolution") : calls[i].ok
  /\ \A i \in CallsOf("ParseCdefault") : calls[i].ok

\* PopulateContexts has returned false to the handler
PopulateFailed ==
  IF handler \in ConfigureHandlers
  THEN ret.configure = << FALSE >> /\ CallsOf("ParseContextSelection") = { }
  ELSE pc = "exit" /\ \E i \in 1..Len(calls) : calls[i] = Call(handler, NoName, FALSE)

\* the state of the cprojects and of the worker, under C21
C21_Checked ==
  /\ DuplicateNames =>
       /\ PopulateFailed
       /\ CallsOf("ParseCproject") = { }
       /\ CallsOf("AddContexts") = { }
       /\ CallsOf("RetrieveAllContextTypes") = { }
       /\ CallsOf("Warn") = { }
       /\ w_ymlOrderedContexts = << >>
       /\ DOMAIN w_contexts = { }
       /\ pc = "exit" => ret.exit = << ERROR >>
  /\ Cardinality(CallsOf("Warn")) <= 1
  /\ CallsOf("Warn") # { } <=> (CprojectsChecked /\ SharedDirs /\ ~DuplicateNames)
  /\ \A i \in CallsOf("Warn") :
       \A j \in CallsOf("ParseCproject") \cup CallsOf("AddContexts") : i < j

\* the step that gives the warning goes on to the parse of the cprojects
C21_WarningGoesOn ==
  (CallsOf("Warn") = { } /\ CallsOf("Warn")' # { })
    => (pc' = "ParseCprojects" /\ idx' = 1 /\ ret' = ret)

\* C21: when the solution lists more than one cproject and two of them have
\* the same file name, PopulateContexts returns false before any cproject is
\* parsed and before any context is added to the worker; two cprojects that
\* share a directory give one warning and the run goes on to parse the
\* cprojects.
C21_UniqueNames == [] C21_Checked /\ [][C21_WarningGoesOn]_vars

\* convert of a solution with two App.cproject.yml has ended
C21_Witness ==
  /\ DuplicateNames
  /\ handler = "RunConvert"
  /\ pc = "exit"
  /\ ret.configure = << FALSE >>
  /\ ret.exit = << ERROR >>

\* two cprojects in one directory: warned, parsed, and the contexts added
C21_SharedDirReached ==
  /\ SharedDirs
  /\ CallsOf("Warn") # { }
  /\ CallsOf("RetrieveAllContextTypes") # { }
  /\ Len(w_ymlOrderedContexts) = 2

(***************************************************************************)
(* C22 - PopulateContexts is fail-fast and ordered                         *)
(***************************************************************************)
PopulateOps ==
  { "ParseCsolution", "ParseCdefault", "ParseCproject", "AddContexts",
    "RetrieveAllContextTypes" }

IsPopulate(call) == call.op \in PopulateOps

IsParseCproject(call) == call.op = "ParseCproject"

IsAddContexts(call) == call.op = "AddContexts"

\* the calls of PopulateContexts, in order
PopulateSeq == SelectSeq(calls, IsPopulate)

ParseCprojectSeq == SelectSeq(calls, IsParseCproject)

AddContextsSeq == SelectSeq(calls, IsAddContexts)

\* the descriptors of the parsed solution, in its order
Descriptors ==
  [ i \in 1..Len(p_csolution.cprojects) |-> ProjectArg(p_csolution.cprojects[i]) ]

\* the contexts of the first n descriptors, in descriptor order
RECURSIVE ContextsOfFirst(_)
ContextsOfFirst(n) ==
  IF n = 0 THEN << >>
  ELSE ContextsOfFirst(n - 1)
       \o ExpandContexts(p_csolution.cprojects[n].project, p_csolution.buildTypes,
                         p_csolution.targetTypes)

\* the descriptors AddContexts has returned true for
AddedCount == Cardinality({ i \in CallsOf("AddContexts") : calls[i].ok })

\* C22: the descriptors are handed to AddContexts in the order of the
\* solution, only after the csolution, the cdefault and every cproject were
\* parsed successfully, and the worker holds the contexts of the added
\* descriptors in that order; a failed parse or AddContexts call is the last
\* call of PopulateContexts, which returns false; RetrieveAllContextTypes is
\* called at most once, after AddContexts has returned true for every
\* descriptor.
C22_PopulateOrder ==
  /\ \A i \in 1..Len(PopulateSeq) :
       ~PopulateSeq[i].ok => (i = Len(PopulateSeq) /\ PopulateFailed)
  /\ Len(ParseCprojectSeq) <= Len(Descriptors)
  /\ \A i \in 1..Len(ParseCprojectSeq) : ParseCprojectSeq[i].arg = Descriptors[i]
  /\ Len(AddContextsSeq) <= Len(Descriptors)
  /\ \A i \in 1..Len(AddContextsSeq) : AddContextsSeq[i].arg = Descriptors[i]
  /\ CallsOf("AddContexts") # { } =>
       /\ CprojectsChecked
       /\ Len(ParseCprojectSeq) = Len(Descriptors)
       /\ \A i \in CallsOf("ParseCproject") :
            calls[i].ok /\ \A j \in CallsOf("AddContexts") : i < j
  /\ w_ymlOrderedContexts = ContextsOfFirst(AddedCount)
  /\ Cardinality(CallsOf("RetrieveAllContextTypes")) <= 1
  /\ \A r \in CallsOf("RetrieveAllContextTypes") :
       /\ CprojectsChecked
       /\ Len(ParseCprojectSeq) = Len(Descriptors)
       /\ AddedCount = Len(Descriptors)
       /\ \A j \in CallsOf("AddContexts") \cup CallsOf("ParseCproject") : j < r
       /\ w_ymlOrderedContexts = ContextsOfFirst(Len(Descriptors))

\* both descriptors of a solution of two cprojects are added
C22_Witness ==
  /\ Len(Descriptors) = 2
  /\ Len(AddContextsSeq) = 2
  /\ CallsOf("RetrieveAllContextTypes") # { }
  /\ Len(w_ymlOrderedContexts) = 4

\* AddContexts fails for the first of two descriptors: the second is not added
C22_FailFastReached ==
  /\ Len(Descriptors) = 2
  /\ Len(AddContextsSeq) = 1
  /\ ~AddContextsSeq[1].ok
  /\ pc = "exit"
  /\ w_ymlOrderedContexts = << >>

(***************************************************************************)
(* C23 - the all-contexts list of an instance that is called again         *)
(***************************************************************************)
\* no element of the list s occurs twice
DuplicateFree(s) == \A i, j \in 1..Len(s) : s[i] = s[j] => i = j

\* C23: after any sequence of Configure and RunListLayers (update-idx) calls
\* on one instance the all-contexts list holds each context at most once.
C23_AsStated == DuplicateFree(m_allContexts)

\* the list is duplicate-free as long as it is Configure that filled it: from
\* the start of its loop until the call returns
C23_ConfigureClears ==
  (handler = "RunConfigure" /\ SetupDone) => DuplicateFree(m_allContexts)

\* RunListLayers, called after a Configure of the four contexts of App, has
\* handed a list of eight to GenerateCbuildIndex
C23_Witness ==
  /\ handler = "RunListLayers"
  /\ pc = "exit"
  /\ Len(w_ymlOrderedContexts) = 4
  /\ m_processedContexts # << >>
  /\ m_allContexts = w_ymlOrderedContexts \o w_ymlOrderedContexts
  /\ CallsOf("GenerateCbuildIndex") # { }

(***************************************************************************)
(* C24 - the three collections of Configure                                *)
(***************************************************************************)
\* the names of the context items of the processed list
ProcessedItemNames == { w_contexts[c].name : c \in Range(m_processedContexts) }

\* the steps of Configure before its loop
SetupSteps == { "PopulateContexts", "ParseCprojects", "AddContexts", "ConfigureSelect" }

\* the collections at every point: the failure set names processed contexts,
\* the processed list is within the all-contexts list, and in a run that has
\* passed its setup both hold what this run has put there, nothing else
C24_Contained ==
  /\ m_failedContext \subseteq ProcessedItemNames
  /\ Range(m_processedContexts) \subseteq Range(m_allContexts)
  /\ (handler = "RunConfigure" /\ SetupDone) =>
       /\ m_failedContext = FailedNames
       /\ Range(m_processedContexts) = ProcessedNames

\* the step that passes the setup leaves the three collections empty
C24_StartsEmpty ==
  (handler = "RunConfigure" /\ pc = "ConfigureSelect" /\ pc' = "ConfigureLoop")
    => (m_allContexts' = << >> /\ m_processedContexts' = << >> /\ m_failedContext' = { })

\* a step of the setup that does not pass it changes none of the three
C24_AbortKeeps ==
  (handler = "RunConfigure" /\ pc \in SetupSteps /\ pc' # "ConfigureLoop")
    => UNCHANGED << m_allContexts, m_processedContexts, m_failedContext >>

C24_AbortReached ==
  /\ handler = "RunConfigure"
  /\ pc = "exit"
  /\ ret.configure = << FALSE >>
  /\ CallsOf("ProcessContext") = { }
  /\ m_failedContext # { }
  /\ m_allContexts # << >>

=============================================================================
